---------------------------- MODULE Spec2Model ----------------------------
(***************************************************************************)
(* RAKSHAK AI scam-detection service (src/main.py): the hybrid classifier, *)
(* the entity extractor, the in-process store (sessions with a TTL, per-   *)
(* client rate buckets, the payment-identifier graph) and the /honeypot    *)
(* request handler, run one request at a time and by concurrent workers.   *)
(***************************************************************************)
EXTENDS Integers, Sequences, FiniteSets, TLC

(***************************************************************************)
(* Text.  A Python str is a sequence of Unicode code points, so "otp" is   *)
(* <<111, 116, 112>>.  The tables below are those of the interpreter that  *)
(* runs the service (Unicode 14.0), each a set of ranges <<first, last>>.  *)
(***************************************************************************)
\* str.isspace(): the separators of str.split() and str.strip(), and \s
WhitespaceRanges ==
  {
    <<9,13>>, <<28,32>>, <<133,133>>, <<160,160>>, <<5760,5760>>,
    <<8192,8202>>, <<8232,8233>>, <<8239,8239>>, <<8287,8287>>,
    <<12288,12288>> }

\* \d of the re module (a str pattern: every decimal digit)
DigitRanges ==
  {
    <<48,57>>, <<1632,1641>>, <<1776,1785>>, <<1984,1993>>, <<2406,2415>>,
    <<2534,2543>>, <<2662,2671>>, <<2790,2799>>, <<2918,2927>>,
    <<3046,3055>>, <<3174,3183>>, <<3302,3311>>, <<3430,3439>>,
    <<3558,3567>>, <<3664,3673>>, <<3792,3801>>, <<3872,3881>>,
    <<4160,4169>>, <<4240,4249>>, <<6112,6121>>, <<6160,6169>>,
    <<6470,6479>>, <<6608,6617>>, <<6784,6793>>, <<6800,6809>>,
    <<6992,7001>>, <<7088,7097>>, <<7232,7241>>, <<7248,7257>>,
    <<42528,42537>>, <<43216,43225>>, <<43264,43273>>, <<43472,43481>>,
    <<43504,43513>>, <<43600,43609>>, <<44016,44025>>, <<65296,65305>>,
    <<66720,66729>>, <<68912,68921>>, <<69734,69743>>, <<69872,69881>>,
    <<69942,69951>>, <<70096,70105>>, <<70384,70393>>, <<70736,70745>>,
    <<70864,70873>>, <<71248,71257>>, <<71360,71369>>, <<71472,71481>>,
    <<71904,71913>>, <<72016,72025>>, <<72784,72793>>, <<73040,73049>>,
    <<73120,73129>>, <<92768,92777>>, <<92864,92873>>, <<93008,93017>>,
    <<120782,120831>>, <<123200,123209>>, <<123632,123641>>,
    <<125264,125273>>, <<130032,130041>> }

\* \w of the re module (a str pattern: every letter, every digit and "_")
WordRanges ==
  {
    <<48,57>>, <<65,90>>, <<95,95>>, <<97,122>>, <<170,170>>, <<178,179>>,
    <<181,181>>, <<185,186>>, <<188,190>>, <<192,214>>, <<216,246>>,
    <<248,705>>, <<710,721>>, <<736,740>>, <<748,748>>, <<750,750>>,
    <<880,884>>, <<886,887>>, <<890,893>>, <<895,895>>, <<902,902>>,
    <<904,906>>, <<908,908>>, <<910,929>>, <<931,1013>>, <<1015,1153>>,
    <<1162,1327>>, <<1329,1366>>, <<1369,1369>>, <<1376,1416>>,
    <<1488,1514>>, <<1519,1522>>, <<1568,1610>>, <<1632,1641>>,
    <<1646,1647>>, <<1649,1747>>, <<1749,1749>>, <<1765,1766>>,
    <<1774,1788>>, <<1791,1791>>, <<1808,1808>>, <<1810,1839>>,
    <<1869,1957>>, <<1969,1969>>, <<1984,2026>>, <<2036,2037>>,
    <<2042,2042>>, <<2048,2069>>, <<2074,2074>>, <<2084,2084>>,
    <<2088,2088>>, <<2112,2136>>, <<2144,2154>>, <<2160,2183>>,
    <<2185,2190>>, <<2208,2249>>, <<2308,2361>>, <<2365,2365>>,
    <<2384,2384>>, <<2392,2401>>, <<2406,2415>>, <<2417,2432>>,
    <<2437,2444>>, <<2447,2448>>, <<2451,2472>>, <<2474,2480>>,
    <<2482,2482>>, <<2486,2489>>, <<2493,2493>>, <<2510,2510>>,
    <<2524,2525>>, <<2527,2529>>, <<2534,2545>>, <<2548,2553>>,
    <<2556,2556>>, <<2565,2570>>, <<2575,2576>>, <<2579,2600>>,
    <<2602,2608>>, <<2610,2611>>, <<2613,2614>>, <<2616,2617>>,
    <<2649,2652>>, <<2654,2654>>, <<2662,2671>>, <<2674,2676>>,
    <<2693,2701>>, <<2703,2705>>, <<2707,2728>>, <<2730,2736>>,
    <<2738,2739>>, <<2741,2745>>, <<2749,2749>>, <<2768,2768>>,
    <<2784,2785>>, <<2790,2799>>, <<2809,2809>>, <<2821,2828>>,
    <<2831,2832>>, <<2835,2856>>, <<2858,2864>>, <<2866,2867>>,
    <<2869,2873>>, <<2877,2877>>, <<2908,2909>>, <<2911,2913>>,
    <<2918,2927>>, <<2929,2935>>, <<2947,2947>>, <<2949,2954>>,
    <<2958,2960>>, <<2962,2965>>, <<2969,2970>>, <<2972,2972>>,
    <<2974,2975>>, <<2979,2980>>, <<2984,2986>>, <<2990,3001>>,
    <<3024,3024>>, <<3046,3058>>, <<3077,3084>>, <<3086,3088>>,
    <<3090,3112>>, <<3114,3129>>, <<3133,3133>>, <<3160,3162>>,
    <<3165,3165>>, <<3168,3169>>, <<3174,3183>>, <<3192,3198>>,
    <<3200,3200>>, <<3205,3212>>, <<3214,3216>>, <<3218,3240>>,
    <<3242,3251>>, <<3253,3257>>, <<3261,3261>>, <<3293,3294>>,
    <<3296,3297>>, <<3302,3311>>, <<3313,3314>>, <<3332,3340>>,
    <<3342,3344>>, <<3346,3386>>, <<3389,3389>>, <<3406,3406>>,
    <<3412,3414>>, <<3416,3425>>, <<3430,3448>>, <<3450,3455>>,
    <<3461,3478>>, <<3482,3505>>, <<3507,3515>>, <<3517,3517>>,
    <<3520,3526>>, <<3558,3567>>, <<3585,3632>>, <<3634,3635>>,
    <<3648,3654>>, <<3664,3673>>, <<3713,3714>>, <<3716,3716>>,
    <<3718,3722>>, <<3724,3747>>, <<3749,3749>>, <<3751,3760>>,
    <<3762,3763>>, <<3773,3773>>, <<3776,3780>>, <<3782,3782>>,
    <<3792,3801>>, <<3804,3807>>, <<3840,3840>>, <<3872,3891>>,
    <<3904,3911>>, <<3913,3948>>, <<3976,3980>>, <<4096,4138>>,
    <<4159,4169>>, <<4176,4181>>, <<4186,4189>>, <<4193,4193>>,
    <<4197,4198>>, <<4206,4208>>, <<4213,4225>>, <<4238,4238>>,
    <<4240,4249>>, <<4256,4293>>, <<4295,4295>>, <<4301,4301>>,
    <<4304,4346>>, <<4348,4680>>, <<4682,4685>>, <<4688,4694>>,
    <<4696,4696>>, <<4698,4701>>, <<4704,4744>>, <<4746,4749>>,
    <<4752,4784>>, <<4786,4789>>, <<4792,4798>>, <<4800,4800>>,
    <<4802,4805>>, <<4808,4822>>, <<4824,4880>>, <<4882,4885>>,
    <<4888,4954>>, <<4969,4988>>, <<4992,5007>>, <<5024,5109>>,
    <<5112,5117>>, <<5121,5740>>, <<5743,5759>>, <<5761,5786>>,
    <<5792,5866>>, <<5870,5880>>, <<5888,5905>>, <<5919,5937>>,
    <<5952,5969>>, <<5984,5996>>, <<5998,6000>>, <<6016,6067>>,
    <<6103,6103>>, <<6108,6108>>, <<6112,6121>>, <<6128,6137>>,
    <<6160,6169>>, <<6176,6264>>, <<6272,6276>>, <<6279,6312>>,
    <<6314,6314>>, <<6320,6389>>, <<6400,6430>>, <<6470,6509>>,
    <<6512,6516>>, <<6528,6571>>, <<6576,6601>>, <<6608,6618>>,
    <<6656,6678>>, <<6688,6740>>, <<6784,6793>>, <<6800,6809>>,
    <<6823,6823>>, <<6917,6963>>, <<6981,6988>>, <<6992,7001>>,
    <<7043,7072>>, <<7086,7141>>, <<7168,7203>>, <<7232,7241>>,
    <<7245,7293>>, <<7296,7304>>, <<7312,7354>>, <<7357,7359>>,
    <<7401,7404>>, <<7406,7411>>, <<7413,7414>>, <<7418,7418>>,
    <<7424,7615>>, <<7680,7957>>, <<7960,7965>>, <<7968,8005>>,
    <<8008,8013>>, <<8016,8023>>, <<8025,8025>>, <<8027,8027>>,
    <<8029,8029>>, <<8031,8061>>, <<8064,8116>>, <<8118,8124>>,
    <<8126,8126>>, <<8130,8132>>, <<8134,8140>>, <<8144,8147>>,
    <<8150,8155>>, <<8160,8172>>, <<8178,8180>>, <<8182,8188>>,
    <<8304,8305>>, <<8308,8313>>, <<8319,8329>>, <<8336,8348>>,
    <<8450,8450>>, <<8455,8455>>, <<8458,8467>>, <<8469,8469>>,
    <<8473,8477>>, <<8484,8484>>, <<8486,8486>>, <<8488,8488>>,
    <<8490,8493>>, <<8495,8505>>, <<8508,8511>>, <<8517,8521>>,
    <<8526,8526>>, <<8528,8585>>, <<9312,9371>>, <<9450,9471>>,
    <<10102,10131>>, <<11264,11492>>, <<11499,11502>>, <<11506,11507>>,
    <<11517,11517>>, <<11520,11557>>, <<11559,11559>>, <<11565,11565>>,
    <<11568,11623>>, <<11631,11631>>, <<11648,11670>>, <<11680,11686>>,
    <<11688,11694>>, <<11696,11702>>, <<11704,11710>>, <<11712,11718>>,
    <<11720,11726>>, <<11728,11734>>, <<11736,11742>>, <<11823,11823>>,
    <<12293,12295>>, <<12321,12329>>, <<12337,12341>>, <<12344,12348>>,
    <<12353,12438>>, <<12445,12447>>, <<12449,12538>>, <<12540,12543>>,
    <<12549,12591>>, <<12593,12686>>, <<12690,12693>>, <<12704,12735>>,
    <<12784,12799>>, <<12832,12841>>, <<12872,12879>>, <<12881,12895>>,
    <<12928,12937>>, <<12977,12991>>, <<13312,19903>>, <<19968,42124>>,
    <<42192,42237>>, <<42240,42508>>, <<42512,42539>>, <<42560,42606>>,
    <<42623,42653>>, <<42656,42735>>, <<42775,42783>>, <<42786,42888>>,
    <<42891,42954>>, <<42960,42961>>, <<42963,42963>>, <<42965,42969>>,
    <<42994,43009>>, <<43011,43013>>, <<43015,43018>>, <<43020,43042>>,
    <<43056,43061>>, <<43072,43123>>, <<43138,43187>>, <<43216,43225>>,
    <<43250,43255>>, <<43259,43259>>, <<43261,43262>>, <<43264,43301>>,
    <<43312,43334>>, <<43360,43388>>, <<43396,43442>>, <<43471,43481>>,
    <<43488,43492>>, <<43494,43518>>, <<43520,43560>>, <<43584,43586>>,
    <<43588,43595>>, <<43600,43609>>, <<43616,43638>>, <<43642,43642>>,
    <<43646,43695>>, <<43697,43697>>, <<43701,43702>>, <<43705,43709>>,
    <<43712,43712>>, <<43714,43714>>, <<43739,43741>>, <<43744,43754>>,
    <<43762,43764>>, <<43777,43782>>, <<43785,43790>>, <<43793,43798>>,
    <<43808,43814>>, <<43816,43822>>, <<43824,43866>>, <<43868,43881>>,
    <<43888,44002>>, <<44016,44025>>, <<44032,55203>>, <<55216,55238>>,
    <<55243,55291>>, <<63744,64109>>, <<64112,64217>>, <<64256,64262>>,
    <<64275,64279>>, <<64285,64285>>, <<64287,64296>>, <<64298,64310>>,
    <<64312,64316>>, <<64318,64318>>, <<64320,64321>>, <<64323,64324>>,
    <<64326,64433>>, <<64467,64829>>, <<64848,64911>>, <<64914,64967>>,
    <<65008,65019>>, <<65136,65140>>, <<65142,65276>>, <<65296,65305>>,
    <<65313,65338>>, <<65345,65370>>, <<65382,65470>>, <<65474,65479>>,
    <<65482,65487>>, <<65490,65495>>, <<65498,65500>>, <<65536,65547>>,
    <<65549,65574>>, <<65576,65594>>, <<65596,65597>>, <<65599,65613>>,
    <<65616,65629>>, <<65664,65786>>, <<65799,65843>>, <<65856,65912>>,
    <<65930,65931>>, <<66176,66204>>, <<66208,66256>>, <<66273,66299>>,
    <<66304,66339>>, <<66349,66378>>, <<66384,66421>>, <<66432,66461>>,
    <<66464,66499>>, <<66504,66511>>, <<66513,66517>>, <<66560,66717>>,
    <<66720,66729>>, <<66736,66771>>, <<66776,66811>>, <<66816,66855>>,
    <<66864,66915>>, <<66928,66938>>, <<66940,66954>>, <<66956,66962>>,
    <<66964,66965>>, <<66967,66977>>, <<66979,66993>>, <<66995,67001>>,
    <<67003,67004>>, <<67072,67382>>, <<67392,67413>>, <<67424,67431>>,
    <<67456,67461>>, <<67463,67504>>, <<67506,67514>>, <<67584,67589>>,
    <<67592,67592>>, <<67594,67637>>, <<67639,67640>>, <<67644,67644>>,
    <<67647,67669>>, <<67672,67702>>, <<67705,67742>>, <<67751,67759>>,
    <<67808,67826>>, <<67828,67829>>, <<67835,67867>>, <<67872,67897>>,
    <<67968,68023>>, <<68028,68047>>, <<68050,68096>>, <<68112,68115>>,
    <<68117,68119>>, <<68121,68149>>, <<68160,68168>>, <<68192,68222>>,
    <<68224,68255>>, <<68288,68295>>, <<68297,68324>>, <<68331,68335>>,
    <<68352,68405>>, <<68416,68437>>, <<68440,68466>>, <<68472,68497>>,
    <<68521,68527>>, <<68608,68680>>, <<68736,68786>>, <<68800,68850>>,
    <<68858,68899>>, <<68912,68921>>, <<69216,69246>>, <<69248,69289>>,
    <<69296,69297>>, <<69376,69415>>, <<69424,69445>>, <<69457,69460>>,
    <<69488,69505>>, <<69552,69579>>, <<69600,69622>>, <<69635,69687>>,
    <<69714,69743>>, <<69745,69746>>, <<69749,69749>>, <<69763,69807>>,
    <<69840,69864>>, <<69872,69881>>, <<69891,69926>>, <<69942,69951>>,
    <<69956,69956>>, <<69959,69959>>, <<69968,70002>>, <<70006,70006>>,
    <<70019,70066>>, <<70081,70084>>, <<70096,70106>>, <<70108,70108>>,
    <<70113,70132>>, <<70144,70161>>, <<70163,70187>>, <<70272,70278>>,
    <<70280,70280>>, <<70282,70285>>, <<70287,70301>>, <<70303,70312>>,
    <<70320,70366>>, <<70384,70393>>, <<70405,70412>>, <<70415,70416>>,
    <<70419,70440>>, <<70442,70448>>, <<70450,70451>>, <<70453,70457>>,
    <<70461,70461>>, <<70480,70480>>, <<70493,70497>>, <<70656,70708>>,
    <<70727,70730>>, <<70736,70745>>, <<70751,70753>>, <<70784,70831>>,
    <<70852,70853>>, <<70855,70855>>, <<70864,70873>>, <<71040,71086>>,
    <<71128,71131>>, <<71168,71215>>, <<71236,71236>>, <<71248,71257>>,
    <<71296,71338>>, <<71352,71352>>, <<71360,71369>>, <<71424,71450>>,
    <<71472,71483>>, <<71488,71494>>, <<71680,71723>>, <<71840,71922>>,
    <<71935,71942>>, <<71945,71945>>, <<71948,71955>>, <<71957,71958>>,
    <<71960,71983>>, <<71999,71999>>, <<72001,72001>>, <<72016,72025>>,
    <<72096,72103>>, <<72106,72144>>, <<72161,72161>>, <<72163,72163>>,
    <<72192,72192>>, <<72203,72242>>, <<72250,72250>>, <<72272,72272>>,
    <<72284,72329>>, <<72349,72349>>, <<72368,72440>>, <<72704,72712>>,
    <<72714,72750>>, <<72768,72768>>, <<72784,72812>>, <<72818,72847>>,
    <<72960,72966>>, <<72968,72969>>, <<72971,73008>>, <<73030,73030>>,
    <<73040,73049>>, <<73056,73061>>, <<73063,73064>>, <<73066,73097>>,
    <<73112,73112>>, <<73120,73129>>, <<73440,73458>>, <<73648,73648>>,
    <<73664,73684>>, <<73728,74649>>, <<74752,74862>>, <<74880,75075>>,
    <<77712,77808>>, <<77824,78894>>, <<82944,83526>>, <<92160,92728>>,
    <<92736,92766>>, <<92768,92777>>, <<92784,92862>>, <<92864,92873>>,
    <<92880,92909>>, <<92928,92975>>, <<92992,92995>>, <<93008,93017>>,
    <<93019,93025>>, <<93027,93047>>, <<93053,93071>>, <<93760,93846>>,
    <<93952,94026>>, <<94032,94032>>, <<94099,94111>>, <<94176,94177>>,
    <<94179,94179>>, <<94208,100343>>, <<100352,101589>>, <<101632,101640>>,
    <<110576,110579>>, <<110581,110587>>, <<110589,110590>>,
    <<110592,110882>>, <<110928,110930>>, <<110948,110951>>,
    <<110960,111355>>, <<113664,113770>>, <<113776,113788>>,
    <<113792,113800>>, <<113808,113817>>, <<119520,119539>>,
    <<119648,119672>>, <<119808,119892>>, <<119894,119964>>,
    <<119966,119967>>, <<119970,119970>>, <<119973,119974>>,
    <<119977,119980>>, <<119982,119993>>, <<119995,119995>>,
    <<119997,120003>>, <<120005,120069>>, <<120071,120074>>,
    <<120077,120084>>, <<120086,120092>>, <<120094,120121>>,
    <<120123,120126>>, <<120128,120132>>, <<120134,120134>>,
    <<120138,120144>>, <<120146,120485>>, <<120488,120512>>,
    <<120514,120538>>, <<120540,120570>>, <<120572,120596>>,
    <<120598,120628>>, <<120630,120654>>, <<120656,120686>>,
    <<120688,120712>>, <<120714,120744>>, <<120746,120770>>,
    <<120772,120779>>, <<120782,120831>>, <<122624,122654>>,
    <<123136,123180>>, <<123191,123197>>, <<123200,123209>>,
    <<123214,123214>>, <<123536,123565>>, <<123584,123627>>,
    <<123632,123641>>, <<124896,124902>>, <<124904,124907>>,
    <<124909,124910>>, <<124912,124926>>, <<124928,125124>>,
    <<125127,125135>>, <<125184,125251>>, <<125259,125259>>,
    <<125264,125273>>, <<126065,126123>>, <<126125,126127>>,
    <<126129,126132>>, <<126209,126253>>, <<126255,126269>>,
    <<126464,126467>>, <<126469,126495>>, <<126497,126498>>,
    <<126500,126500>>, <<126503,126503>>, <<126505,126514>>,
    <<126516,126519>>, <<126521,126521>>, <<126523,126523>>,
    <<126530,126530>>, <<126535,126535>>, <<126537,126537>>,
    <<126539,126539>>, <<126541,126543>>, <<126545,126546>>,
    <<126548,126548>>, <<126551,126551>>, <<126553,126553>>,
    <<126555,126555>>, <<126557,126557>>, <<126559,126559>>,
    <<126561,126562>>, <<126564,126564>>, <<126567,126570>>,
    <<126572,126578>>, <<126580,126583>>, <<126585,126588>>,
    <<126590,126590>>, <<126592,126601>>, <<126603,126619>>,
    <<126625,126627>>, <<126629,126633>>, <<126635,126651>>,
    <<127232,127244>>, <<130032,130041>>, <<131072,173791>>,
    <<173824,177976>>, <<177984,178205>>, <<178208,183969>>,
    <<183984,191456>>, <<194560,195101>>, <<196608,201546>> }

\* str.lower() of one character where it is another single character: each
\* <<first, last, step, delta>> sends first, first + step, ..., last to
\* itself + delta
LowerRuns ==
  {
    <<65,90,1,32>>, <<192,214,1,32>>, <<216,222,1,32>>, <<256,302,2,1>>,
    <<306,310,2,1>>, <<313,327,2,1>>, <<330,374,2,1>>, <<376,376,1,-121>>,
    <<377,381,2,1>>, <<385,385,1,210>>, <<386,388,2,1>>, <<390,390,1,206>>,
    <<391,391,1,1>>, <<393,394,1,205>>, <<395,395,1,1>>, <<398,398,1,79>>,
    <<399,399,1,202>>, <<400,400,1,203>>, <<401,401,1,1>>,
    <<403,403,1,205>>, <<404,404,1,207>>, <<406,406,1,211>>,
    <<407,407,1,209>>, <<408,408,1,1>>, <<412,412,1,211>>,
    <<413,413,1,213>>, <<415,415,1,214>>, <<416,420,2,1>>,
    <<422,422,1,218>>, <<423,423,1,1>>, <<425,425,1,218>>, <<428,428,1,1>>,
    <<430,430,1,218>>, <<431,431,1,1>>, <<433,434,1,217>>, <<435,437,2,1>>,
    <<439,439,1,219>>, <<440,440,1,1>>, <<444,444,1,1>>, <<452,452,1,2>>,
    <<453,453,1,1>>, <<455,455,1,2>>, <<456,456,1,1>>, <<458,458,1,2>>,
    <<459,475,2,1>>, <<478,494,2,1>>, <<497,497,1,2>>, <<498,500,2,1>>,
    <<502,502,1,-97>>, <<503,503,1,-56>>, <<504,542,2,1>>,
    <<544,544,1,-130>>, <<546,562,2,1>>, <<570,570,1,10795>>,
    <<571,571,1,1>>, <<573,573,1,-163>>, <<574,574,1,10792>>,
    <<577,577,1,1>>, <<579,579,1,-195>>, <<580,580,1,69>>, <<581,581,1,71>>,
    <<582,590,2,1>>, <<880,882,2,1>>, <<886,886,1,1>>, <<895,895,1,116>>,
    <<902,902,1,38>>, <<904,906,1,37>>, <<908,908,1,64>>, <<910,911,1,63>>,
    <<913,929,1,32>>, <<931,939,1,32>>, <<975,975,1,8>>, <<984,1006,2,1>>,
    <<1012,1012,1,-60>>, <<1015,1015,1,1>>, <<1017,1017,1,-7>>,
    <<1018,1018,1,1>>, <<1021,1023,1,-130>>, <<1024,1039,1,80>>,
    <<1040,1071,1,32>>, <<1120,1152,2,1>>, <<1162,1214,2,1>>,
    <<1216,1216,1,15>>, <<1217,1229,2,1>>, <<1232,1326,2,1>>,
    <<1329,1366,1,48>>, <<4256,4293,1,7264>>, <<4295,4295,1,7264>>,
    <<4301,4301,1,7264>>, <<5024,5103,1,38864>>, <<5104,5109,1,8>>,
    <<7312,7354,1,-3008>>, <<7357,7359,1,-3008>>, <<7680,7828,2,1>>,
    <<7838,7838,1,-7615>>, <<7840,7934,2,1>>, <<7944,7951,1,-8>>,
    <<7960,7965,1,-8>>, <<7976,7983,1,-8>>, <<7992,7999,1,-8>>,
    <<8008,8013,1,-8>>, <<8025,8031,2,-8>>, <<8040,8047,1,-8>>,
    <<8072,8079,1,-8>>, <<8088,8095,1,-8>>, <<8104,8111,1,-8>>,
    <<8120,8121,1,-8>>, <<8122,8123,1,-74>>, <<8124,8124,1,-9>>,
    <<8136,8139,1,-86>>, <<8140,8140,1,-9>>, <<8152,8153,1,-8>>,
    <<8154,8155,1,-100>>, <<8168,8169,1,-8>>, <<8170,8171,1,-112>>,
    <<8172,8172,1,-7>>, <<8184,8185,1,-128>>, <<8186,8187,1,-126>>,
    <<8188,8188,1,-9>>, <<8486,8486,1,-7517>>, <<8490,8490,1,-8383>>,
    <<8491,8491,1,-8262>>, <<8498,8498,1,28>>, <<8544,8559,1,16>>,
    <<8579,8579,1,1>>, <<9398,9423,1,26>>, <<11264,11311,1,48>>,
    <<11360,11360,1,1>>, <<11362,11362,1,-10743>>, <<11363,11363,1,-3814>>,
    <<11364,11364,1,-10727>>, <<11367,11371,2,1>>, <<11373,11373,1,-10780>>,
    <<11374,11374,1,-10749>>, <<11375,11375,1,-10783>>,
    <<11376,11376,1,-10782>>, <<11378,11378,1,1>>, <<11381,11381,1,1>>,
    <<11390,11391,1,-10815>>, <<11392,11490,2,1>>, <<11499,11501,2,1>>,
    <<11506,11506,1,1>>, <<42560,42604,2,1>>, <<42624,42650,2,1>>,
    <<42786,42798,2,1>>, <<42802,42862,2,1>>, <<42873,42875,2,1>>,
    <<42877,42877,1,-35332>>, <<42878,42886,2,1>>, <<42891,42891,1,1>>,
    <<42893,42893,1,-42280>>, <<42896,42898,2,1>>, <<42902,42920,2,1>>,
    <<42922,42922,1,-42308>>, <<42923,42923,1,-42319>>,
    <<42924,42924,1,-42315>>, <<42925,42925,1,-42305>>,
    <<42926,42926,1,-42308>>, <<42928,42928,1,-42258>>,
    <<42929,42929,1,-42282>>, <<42930,42930,1,-42261>>,
    <<42931,42931,1,928>>, <<42932,42946,2,1>>, <<42948,42948,1,-48>>,
    <<42949,42949,1,-42307>>, <<42950,42950,1,-35384>>, <<42951,42953,2,1>>,
    <<42960,42960,1,1>>, <<42966,42968,2,1>>, <<42997,42997,1,1>>,
    <<65313,65338,1,32>>, <<66560,66599,1,40>>, <<66736,66771,1,40>>,
    <<66928,66938,1,39>>, <<66940,66954,1,39>>, <<66956,66962,1,39>>,
    <<66964,66965,1,39>>, <<68736,68786,1,64>>, <<71840,71871,1,32>>,
    <<93760,93791,1,32>>, <<125184,125217,1,34>> }

\* the cased characters that are not case-ignorable, and the case-ignorable
\* characters: the context in which str.lower() reads a capital sigma
CasedRanges ==
  {
    <<65,90>>, <<97,122>>, <<170,170>>, <<181,181>>, <<186,186>>,
    <<192,214>>, <<216,246>>, <<248,442>>, <<444,447>>, <<452,659>>,
    <<661,687>>, <<880,883>>, <<886,887>>, <<891,893>>, <<895,895>>,
    <<902,902>>, <<904,906>>, <<908,908>>, <<910,929>>, <<931,1013>>,
    <<1015,1153>>, <<1162,1327>>, <<1329,1366>>, <<1376,1416>>,
    <<4256,4293>>, <<4295,4295>>, <<4301,4301>>, <<4304,4346>>,
    <<4349,4351>>, <<5024,5109>>, <<5112,5117>>, <<7296,7304>>,
    <<7312,7354>>, <<7357,7359>>, <<7424,7467>>, <<7531,7543>>,
    <<7545,7578>>, <<7680,7957>>, <<7960,7965>>, <<7968,8005>>,
    <<8008,8013>>, <<8016,8023>>, <<8025,8025>>, <<8027,8027>>,
    <<8029,8029>>, <<8031,8061>>, <<8064,8116>>, <<8118,8124>>,
    <<8126,8126>>, <<8130,8132>>, <<8134,8140>>, <<8144,8147>>,
    <<8150,8155>>, <<8160,8172>>, <<8178,8180>>, <<8182,8188>>,
    <<8450,8450>>, <<8455,8455>>, <<8458,8467>>, <<8469,8469>>,
    <<8473,8477>>, <<8484,8484>>, <<8486,8486>>, <<8488,8488>>,
    <<8490,8493>>, <<8495,8500>>, <<8505,8505>>, <<8508,8511>>,
    <<8517,8521>>, <<8526,8526>>, <<8544,8575>>, <<8579,8580>>,
    <<9398,9449>>, <<11264,11387>>, <<11390,11492>>, <<11499,11502>>,
    <<11506,11507>>, <<11520,11557>>, <<11559,11559>>, <<11565,11565>>,
    <<42560,42605>>, <<42624,42651>>, <<42786,42863>>, <<42865,42887>>,
    <<42891,42894>>, <<42896,42954>>, <<42960,42961>>, <<42963,42963>>,
    <<42965,42969>>, <<42997,42998>>, <<43002,43002>>, <<43824,43866>>,
    <<43872,43880>>, <<43888,43967>>, <<64256,64262>>, <<64275,64279>>,
    <<65313,65338>>, <<65345,65370>>, <<66560,66639>>, <<66736,66771>>,
    <<66776,66811>>, <<66928,66938>>, <<66940,66954>>, <<66956,66962>>,
    <<66964,66965>>, <<66967,66977>>, <<66979,66993>>, <<66995,67001>>,
    <<67003,67004>>, <<68736,68786>>, <<68800,68850>>, <<71840,71903>>,
    <<93760,93823>>, <<119808,119892>>, <<119894,119964>>,
    <<119966,119967>>, <<119970,119970>>, <<119973,119974>>,
    <<119977,119980>>, <<119982,119993>>, <<119995,119995>>,
    <<119997,120003>>, <<120005,120069>>, <<120071,120074>>,
    <<120077,120084>>, <<120086,120092>>, <<120094,120121>>,
    <<120123,120126>>, <<120128,120132>>, <<120134,120134>>,
    <<120138,120144>>, <<120146,120485>>, <<120488,120512>>,
    <<120514,120538>>, <<120540,120570>>, <<120572,120596>>,
    <<120598,120628>>, <<120630,120654>>, <<120656,120686>>,
    <<120688,120712>>, <<120714,120744>>, <<120746,120770>>,
    <<120772,120779>>, <<122624,122633>>, <<122635,122654>>,
    <<125184,125251>>, <<127280,127305>>, <<127312,127337>>,
    <<127344,127369>> }

CaseIgnorableRanges ==
  {
    <<39,39>>, <<46,46>>, <<58,58>>, <<94,94>>, <<96,96>>, <<168,168>>,
    <<173,173>>, <<175,175>>, <<180,180>>, <<183,184>>, <<688,879>>,
    <<884,885>>, <<890,890>>, <<900,901>>, <<903,903>>, <<1155,1161>>,
    <<1369,1369>>, <<1375,1375>>, <<1425,1469>>, <<1471,1471>>,
    <<1473,1474>>, <<1476,1477>>, <<1479,1479>>, <<1524,1524>>,
    <<1536,1541>>, <<1552,1562>>, <<1564,1564>>, <<1600,1600>>,
    <<1611,1631>>, <<1648,1648>>, <<1750,1757>>, <<1759,1768>>,
    <<1770,1773>>, <<1807,1807>>, <<1809,1809>>, <<1840,1866>>,
    <<1958,1968>>, <<2027,2037>>, <<2042,2042>>, <<2045,2045>>,
    <<2070,2093>>, <<2137,2139>>, <<2184,2184>>, <<2192,2193>>,
    <<2200,2207>>, <<2249,2306>>, <<2362,2362>>, <<2364,2364>>,
    <<2369,2376>>, <<2381,2381>>, <<2385,2391>>, <<2402,2403>>,
    <<2417,2417>>, <<2433,2433>>, <<2492,2492>>, <<2497,2500>>,
    <<2509,2509>>, <<2530,2531>>, <<2558,2558>>, <<2561,2562>>,
    <<2620,2620>>, <<2625,2626>>, <<2631,2632>>, <<2635,2637>>,
    <<2641,2641>>, <<2672,2673>>, <<2677,2677>>, <<2689,2690>>,
    <<2748,2748>>, <<2753,2757>>, <<2759,2760>>, <<2765,2765>>,
    <<2786,2787>>, <<2810,2815>>, <<2817,2817>>, <<2876,2876>>,
    <<2879,2879>>, <<2881,2884>>, <<2893,2893>>, <<2901,2902>>,
    <<2914,2915>>, <<2946,2946>>, <<3008,3008>>, <<3021,3021>>,
    <<3072,3072>>, <<3076,3076>>, <<3132,3132>>, <<3134,3136>>,
    <<3142,3144>>, <<3146,3149>>, <<3157,3158>>, <<3170,3171>>,
    <<3201,3201>>, <<3260,3260>>, <<3263,3263>>, <<3270,3270>>,
    <<3276,3277>>, <<3298,3299>>, <<3328,3329>>, <<3387,3388>>,
    <<3393,3396>>, <<3405,3405>>, <<3426,3427>>, <<3457,3457>>,
    <<3530,3530>>, <<3538,3540>>, <<3542,3542>>, <<3633,3633>>,
    <<3636,3642>>, <<3654,3662>>, <<3761,3761>>, <<3764,3772>>,
    <<3782,3782>>, <<3784,3789>>, <<3864,3865>>, <<3893,3893>>,
    <<3895,3895>>, <<3897,3897>>, <<3953,3966>>, <<3968,3972>>,
    <<3974,3975>>, <<3981,3991>>, <<3993,4028>>, <<4038,4038>>,
    <<4141,4144>>, <<4146,4151>>, <<4153,4154>>, <<4157,4158>>,
    <<4184,4185>>, <<4190,4192>>, <<4209,4212>>, <<4226,4226>>,
    <<4229,4230>>, <<4237,4237>>, <<4253,4253>>, <<4348,4348>>,
    <<4957,4959>>, <<5906,5908>>, <<5938,5939>>, <<5970,5971>>,
    <<6002,6003>>, <<6068,6069>>, <<6071,6077>>, <<6086,6086>>,
    <<6089,6099>>, <<6103,6103>>, <<6109,6109>>, <<6155,6159>>,
    <<6211,6211>>, <<6277,6278>>, <<6313,6313>>, <<6432,6434>>,
    <<6439,6440>>, <<6450,6450>>, <<6457,6459>>, <<6679,6680>>,
    <<6683,6683>>, <<6742,6742>>, <<6744,6750>>, <<6752,6752>>,
    <<6754,6754>>, <<6757,6764>>, <<6771,6780>>, <<6783,6783>>,
    <<6823,6823>>, <<6832,6862>>, <<6912,6915>>, <<6964,6964>>,
    <<6966,6970>>, <<6972,6972>>, <<6978,6978>>, <<7019,7027>>,
    <<7040,7041>>, <<7074,7077>>, <<7080,7081>>, <<7083,7085>>,
    <<7142,7142>>, <<7144,7145>>, <<7149,7149>>, <<7151,7153>>,
    <<7212,7219>>, <<7222,7223>>, <<7288,7293>>, <<7376,7378>>,
    <<7380,7392>>, <<7394,7400>>, <<7405,7405>>, <<7412,7412>>,
    <<7416,7417>>, <<7468,7530>>, <<7544,7544>>, <<7579,7679>>,
    <<8125,8125>>, <<8127,8129>>, <<8141,8143>>, <<8157,8159>>,
    <<8173,8175>>, <<8189,8190>>, <<8203,8207>>, <<8216,8217>>,
    <<8228,8228>>, <<8231,8231>>, <<8234,8238>>, <<8288,8292>>,
    <<8294,8303>>, <<8305,8305>>, <<8319,8319>>, <<8336,8348>>,
    <<8400,8432>>, <<11388,11389>>, <<11503,11505>>, <<11631,11631>>,
    <<11647,11647>>, <<11744,11775>>, <<11823,11823>>, <<12293,12293>>,
    <<12330,12333>>, <<12337,12341>>, <<12347,12347>>, <<12441,12446>>,
    <<12540,12542>>, <<40981,40981>>, <<42232,42237>>, <<42508,42508>>,
    <<42607,42610>>, <<42612,42621>>, <<42623,42623>>, <<42652,42655>>,
    <<42736,42737>>, <<42752,42785>>, <<42864,42864>>, <<42888,42890>>,
    <<42994,42996>>, <<43000,43001>>, <<43010,43010>>, <<43014,43014>>,
    <<43019,43019>>, <<43045,43046>>, <<43052,43052>>, <<43204,43205>>,
    <<43232,43249>>, <<43263,43263>>, <<43302,43309>>, <<43335,43345>>,
    <<43392,43394>>, <<43443,43443>>, <<43446,43449>>, <<43452,43453>>,
    <<43471,43471>>, <<43493,43494>>, <<43561,43566>>, <<43569,43570>>,
    <<43573,43574>>, <<43587,43587>>, <<43596,43596>>, <<43632,43632>>,
    <<43644,43644>>, <<43696,43696>>, <<43698,43700>>, <<43703,43704>>,
    <<43710,43711>>, <<43713,43713>>, <<43741,43741>>, <<43756,43757>>,
    <<43763,43764>>, <<43766,43766>>, <<43867,43871>>, <<43881,43883>>,
    <<44005,44005>>, <<44008,44008>>, <<44013,44013>>, <<64286,64286>>,
    <<64434,64450>>, <<65024,65039>>, <<65043,65043>>, <<65056,65071>>,
    <<65106,65106>>, <<65109,65109>>, <<65279,65279>>, <<65287,65287>>,
    <<65294,65294>>, <<65306,65306>>, <<65342,65342>>, <<65344,65344>>,
    <<65392,65392>>, <<65438,65439>>, <<65507,65507>>, <<65529,65531>>,
    <<66045,66045>>, <<66272,66272>>, <<66422,66426>>, <<67456,67461>>,
    <<67463,67504>>, <<67506,67514>>, <<68097,68099>>, <<68101,68102>>,
    <<68108,68111>>, <<68152,68154>>, <<68159,68159>>, <<68325,68326>>,
    <<68900,68903>>, <<69291,69292>>, <<69446,69456>>, <<69506,69509>>,
    <<69633,69633>>, <<69688,69702>>, <<69744,69744>>, <<69747,69748>>,
    <<69759,69761>>, <<69811,69814>>, <<69817,69818>>, <<69821,69821>>,
    <<69826,69826>>, <<69837,69837>>, <<69888,69890>>, <<69927,69931>>,
    <<69933,69940>>, <<70003,70003>>, <<70016,70017>>, <<70070,70078>>,
    <<70089,70092>>, <<70095,70095>>, <<70191,70193>>, <<70196,70196>>,
    <<70198,70199>>, <<70206,70206>>, <<70367,70367>>, <<70371,70378>>,
    <<70400,70401>>, <<70459,70460>>, <<70464,70464>>, <<70502,70508>>,
    <<70512,70516>>, <<70712,70719>>, <<70722,70724>>, <<70726,70726>>,
    <<70750,70750>>, <<70835,70840>>, <<70842,70842>>, <<70847,70848>>,
    <<70850,70851>>, <<71090,71093>>, <<71100,71101>>, <<71103,71104>>,
    <<71132,71133>>, <<71219,71226>>, <<71229,71229>>, <<71231,71232>>,
    <<71339,71339>>, <<71341,71341>>, <<71344,71349>>, <<71351,71351>>,
    <<71453,71455>>, <<71458,71461>>, <<71463,71467>>, <<71727,71735>>,
    <<71737,71738>>, <<71995,71996>>, <<71998,71998>>, <<72003,72003>>,
    <<72148,72151>>, <<72154,72155>>, <<72160,72160>>, <<72193,72202>>,
    <<72243,72248>>, <<72251,72254>>, <<72263,72263>>, <<72273,72278>>,
    <<72281,72283>>, <<72330,72342>>, <<72344,72345>>, <<72752,72758>>,
    <<72760,72765>>, <<72767,72767>>, <<72850,72871>>, <<72874,72880>>,
    <<72882,72883>>, <<72885,72886>>, <<73009,73014>>, <<73018,73018>>,
    <<73020,73021>>, <<73023,73029>>, <<73031,73031>>, <<73104,73105>>,
    <<73109,73109>>, <<73111,73111>>, <<73459,73460>>, <<78896,78904>>,
    <<92912,92916>>, <<92976,92982>>, <<92992,92995>>, <<94031,94031>>,
    <<94095,94111>>, <<94176,94177>>, <<94179,94180>>, <<110576,110579>>,
    <<110581,110587>>, <<110589,110590>>, <<113821,113822>>,
    <<113824,113827>>, <<118528,118573>>, <<118576,118598>>,
    <<119143,119145>>, <<119155,119170>>, <<119173,119179>>,
    <<119210,119213>>, <<119362,119364>>, <<121344,121398>>,
    <<121403,121452>>, <<121461,121461>>, <<121476,121476>>,
    <<121499,121503>>, <<121505,121519>>, <<122880,122886>>,
    <<122888,122904>>, <<122907,122913>>, <<122915,122916>>,
    <<122918,122922>>, <<123184,123197>>, <<123566,123566>>,
    <<123628,123631>>, <<125136,125142>>, <<125252,125259>>,
    <<127995,127999>>, <<917505,917505>>, <<917536,917631>>,
    <<917760,917999>> }

\* the characters of a set of ranges
Chars(R) == UNION {r[1]..r[2] : r \in R}

Whitespace == Chars(WhitespaceRanges)
Digit == Chars(DigitRanges)
WordChar == Chars(WordRanges)
\* the class [\w.-] of UPI_REGEX
UpiChar == WordChar \cup {45, 46}   \* "-" and "."
Cased == Chars(CasedRanges)
CaseIgnorable == Chars(CaseIgnorableRanges)

SetMin(S) == CHOOSE x \in S : \A y \in S : x <= y
SetMax(S) == CHOOSE x \in S : \A y \in S : y <= x

\* the lower case of one character: one character, or two for U+0130
LowerChar(c) ==
  IF c = 304 THEN <<105, 775>>
  ELSE LET runs == {r \in LowerRuns :
                      r[1] <= c /\ c <= r[2] /\ (c - r[1]) % r[3] = 0}
       IN  IF runs = {} THEN <<c>>
           ELSE <<c + (CHOOSE r \in runs : TRUE)[4]>>

\* the capital sigma at s[i] ends a word: the nearest character before it
\* that is not case-ignorable is cased, and the nearest after it is not
FinalSigma(s, i) ==
  LET before == {j \in 1..(i-1) : s[j] \notin CaseIgnorable}
      after  == {j \in (i+1)..Len(s) : s[j] \notin CaseIgnorable}
  IN  /\ before # {}
      /\ s[SetMax(before)] \in Cased
      /\ (IF after = {} THEN TRUE ELSE s[SetMin(after)] \notin Cased)

\* the concatenation of a sequence of sequences
RECURSIVE Concat(_)
Concat(ss) == IF Len(ss) = 0 THEN <<>> ELSE ss[1] \o Concat(Tail(ss))

\* str.lower()
str_lower(s) ==
  Concat([i \in 1..Len(s) |->
            IF s[i] = 931
            THEN (IF FinalSigma(s, i) THEN <<962>> ELSE <<963>>)
            ELSE LowerChar(s[i])])

\* str.strip()
str_strip(s) ==
  LET ns == {i \in 1..Len(s) : s[i] \notin Whitespace}
  IN  IF ns = {} THEN <<>> ELSE SubSeq(s, SetMin(ns), SetMax(ns))

\* len(s.split()): the number of maximal runs of non-whitespace characters
WordCount(s) ==
  Cardinality({i \in 1..Len(s) :
                 /\ s[i] \notin Whitespace
                 /\ (i = 1 \/ s[i-1] \in Whitespace)})

\* k in s (substring test)
Contains(k, s) ==
  \E i \in 0..(Len(s) - Len(k)) : \A j \in 1..Len(k) : s[i+j] = k[j]

\* s[i:].startswith(k), positions counted from 1
StartsAt(k, s, i) ==
  /\ i + Len(k) - 1 <= Len(s)
  /\ \A j \in 1..Len(k) : s[i+j-1] = k[j]

\* the end (exclusive) of the maximal run of characters of class C from i
RECURSIVE RunEnd(_,_,_)
RunEnd(s, i, C) ==
  IF i > Len(s) THEN i
  ELSE IF s[i] \notin C THEN i
  ELSE RunEnd(s, i+1, C)

\* the end (exclusive) of the maximal run of non-whitespace characters from i
RECURSIVE NonSpaceEnd(_,_)
NonSpaceEnd(s, i) ==
  IF i > Len(s) THEN i
  ELSE IF s[i] \in Whitespace THEN i
  ELSE NonSpaceEnd(s, i+1)

\* Join with the separator dropped
RECURSIVE JoinNoSeparator(_)
JoinNoSeparator(h) ==
  IF Len(h) = 0 THEN <<>> ELSE h[1] \o JoinNoSeparator(Tail(h))

\* " ".join(history)
RECURSIVE Join(_)
Join(h) ==
  IF Len(h) = 0 THEN <<>>
  ELSE IF Len(h) = 1 THEN h[1]
  ELSE h[1] \o <<32>> \o Join(Tail(h))   \* 32 is the space

(***************************************************************************)
(* The regular expressions.  re_match(pattern, s, i) is the end            *)
(* (exclusive) of the match the re module finds starting at position i of  *)
(* s, and 0 if the pattern does not match there.                           *)
(***************************************************************************)
UPI_REGEX == "[\\w.-]+@[\\w.-]+"
BANK_REGEX == "\\b\\d{9,18}\\b"
URL_REGEX == "https?://[^\\s]+"

\* [\w.-]+@[\w.-]+
MatchUpi(s, i) ==
  LET j == RunEnd(s, i, UpiChar)
  IN  IF j > i /\ j <= Len(s) /\ s[j] = 64 (* @ *) /\ RunEnd(s, j+1, UpiChar) > j+1
      THEN RunEnd(s, j+1, UpiChar)
      ELSE 0

\* \b\d{9,18}\b
MatchBank(s, i) ==
  LET j == RunEnd(s, i, Digit)
  IN  IF /\ (i = 1 \/ s[i-1] \notin WordChar)
         /\ j - i >= 9 /\ j - i <= 18
         /\ (j = Len(s) + 1 \/ s[j] \notin WordChar)
      THEN j
      ELSE 0

\* https?://[^\s]+
MatchUrl(s, i) ==
  \* sep is "://", the sequences below "http" and "s"
  LET sep == <<58, 47, 47>>
      k == IF ~StartsAt(<<104, 116, 116, 112>>, s, i) THEN 0
           ELSE IF StartsAt(<<115>> \o sep, s, i+4) THEN i + 8
           ELSE IF StartsAt(sep, s, i+4) THEN i + 7
           ELSE 0
  IN  IF k > 0 /\ NonSpaceEnd(s, k) > k THEN NonSpaceEnd(s, k) ELSE 0

re_match(pattern, s, i) ==
  IF pattern = UPI_REGEX THEN MatchUpi(s, i)
  ELSE IF pattern = BANK_REGEX THEN MatchBank(s, i)
  ELSE MatchUrl(s, i)

\* re.search(pattern, s) is not None
re_search(pattern, s) == \E i \in 1..Len(s) : re_match(pattern, s, i) > 0

\* re.findall(pattern, s): the non-overlapping matches, leftmost first; the
\* scan resumes where the last match ended
RECURSIVE FindFrom(_,_,_)
FindFrom(pattern, s, i) ==
  LET starts == {j \in i..Len(s) : re_match(pattern, s, j) > 0}
  IN  IF starts = {} THEN <<>>
      ELSE LET b == SetMin(starts)
               e == re_match(pattern, s, b)
           IN  <<SubSeq(s, b, e-1)>> \o FindFrom(pattern, s, e)
re_findall(pattern, s) == FindFrom(pattern, s, 1)

\* set(xs)
ToSet(xs) == {xs[i] : i \in DOMAIN xs}
\* list(S): the members of S, each once.  The order is that of the set's
\* hash table, which changes with the hash seed of the run, so ToList(S) is
\* the set of the lists the call can return: every ordering of S
RECURSIVE ToList(_)
ToList(S) ==
  IF S = {} THEN {<<>>}
  ELSE UNION {{<<x>> \o t : t \in ToList(S \ {x})} : x \in S}

(***************************************************************************)
(* BASE_SCAM_KEYWORDS (src/main.py:51-72).                                *)
(***************************************************************************)
BASE_SCAM_KEYWORDS ==
  <<<<97, 99, 99, 111, 117, 110, 116, 32, 98, 108, 111, 99, 107, 101, 100>>,  \* "account blocked"
    <<97, 99, 99, 111, 117, 110, 116, 32, 115, 117, 115, 112, 101, 110, 100, 101, 100>>,  \* "account suspended"
    <<97, 99, 99, 111, 117, 110, 116, 32, 102, 114, 111, 122, 101, 110>>,  \* "account frozen"
    <<98, 97, 110, 107, 32, 118, 101, 114, 105, 102, 105, 99, 97, 116, 105, 111, 110>>,  \* "bank verification"
    <<115, 101, 99, 117, 114, 105, 116, 121, 32, 97, 108, 101, 114, 116>>,  \* "security alert"
    <<117, 110, 97, 117, 116, 104, 111, 114, 105, 122, 101, 100, 32, 116, 114, 97, 110, 115, 97, 99, 116, 105, 111, 110>>,  \* "unauthorized transaction"
    <<118, 101, 114, 105, 102, 121, 32, 98, 97, 110, 107>>,  \* "verify bank"
    <<117, 112, 100, 97, 116, 101, 32, 107, 121, 99>>,  \* "update kyc"
    <<97, 97, 100, 104, 97, 97, 114, 32, 117, 112, 100, 97, 116, 101>>,  \* "aadhaar update"
    <<112, 97, 110, 32, 117, 112, 100, 97, 116, 101>>,  \* "pan update"
    <<117, 112, 105, 32, 98, 108, 111, 99, 107, 101, 100>>,  \* "upi blocked"
    <<117, 112, 105, 32, 118, 101, 114, 105, 102, 105, 99, 97, 116, 105, 111, 110>>,  \* "upi verification"
    <<115, 101, 110, 100, 32, 109, 111, 110, 101, 121>>,  \* "send money"
    <<112, 97, 121, 109, 101, 110, 116, 32, 112, 101, 110, 100, 105, 110, 103>>,  \* "payment pending"
    <<114, 101, 102, 117, 110, 100, 32, 112, 114, 111, 99, 101, 115, 115, 105, 110, 103>>,  \* "refund processing"
    <<117, 112, 105, 32, 108, 105, 109, 105, 116, 32, 101, 120, 99, 101, 101, 100, 101, 100>>,  \* "upi limit exceeded"
    <<99, 114, 101, 100, 105, 116, 32, 99, 97, 114, 100>>,  \* "credit card"
    <<100, 101, 98, 105, 116, 32, 99, 97, 114, 100>>,  \* "debit card"
    <<99, 97, 114, 100, 32, 110, 117, 109, 98, 101, 114>>,  \* "card number"
    <<99, 118, 118>>,  \* "cvv"
    <<101, 120, 112, 105, 114, 121, 32, 100, 97, 116, 101>>,  \* "expiry date"
    <<99, 97, 114, 100, 32, 98, 108, 111, 99, 107, 101, 100>>,  \* "card blocked"
    <<105, 110, 116, 101, 114, 110, 97, 116, 105, 111, 110, 97, 108, 32, 116, 114, 97, 110, 115, 97, 99, 116, 105, 111, 110>>,  \* "international transaction"
    <<111, 116, 112>>,  \* "otp"
    <<111, 110, 101, 32, 116, 105, 109, 101, 32, 112, 97, 115, 115, 119, 111, 114, 100>>,  \* "one time password"
    <<118, 101, 114, 105, 102, 105, 99, 97, 116, 105, 111, 110, 32, 99, 111, 100, 101>>,  \* "verification code"
    <<115, 104, 97, 114, 101, 32, 111, 116, 112>>,  \* "share otp"
    <<105, 110, 115, 116, 97, 110, 116, 32, 108, 111, 97, 110>>,  \* "instant loan"
    <<112, 114, 101, 32, 97, 112, 112, 114, 111, 118, 101, 100, 32, 108, 111, 97, 110>>,  \* "pre approved loan"
    <<108, 111, 97, 110, 32, 97, 112, 112, 114, 111, 118, 101, 100>>,  \* "loan approved"
    <<112, 114, 111, 99, 101, 115, 115, 105, 110, 103, 32, 102, 101, 101>>,  \* "processing fee"
    <<108, 111, 97, 110, 32, 111, 102, 102, 101, 114>>,  \* "loan offer"
    <<119, 111, 114, 107, 32, 102, 114, 111, 109, 32, 104, 111, 109, 101>>,  \* "work from home"
    <<101, 97, 114, 110, 32, 109, 111, 110, 101, 121>>,  \* "earn money"
    <<101, 97, 115, 121, 32, 109, 111, 110, 101, 121>>,  \* "easy money"
    <<116, 101, 108, 101, 103, 114, 97, 109, 32, 106, 111, 98>>,  \* "telegram job"
    <<119, 104, 97, 116, 115, 97, 112, 112, 32, 106, 111, 98>>,  \* "whatsapp job"
    <<108, 111, 116, 116, 101, 114, 121>>,  \* "lottery"
    <<121, 111, 117, 32, 119, 111, 110>>,  \* "you won"
    <<99, 97, 115, 104, 32, 112, 114, 105, 122, 101>>,  \* "cash prize"
    <<108, 117, 99, 107, 121, 32, 100, 114, 97, 119>>,  \* "lucky draw"
    <<112, 111, 108, 105, 99, 101, 32, 99, 97, 115, 101>>,  \* "police case"
    <<108, 101, 103, 97, 108, 32, 110, 111, 116, 105, 99, 101>>,  \* "legal notice"
    <<99, 111, 117, 114, 116, 32, 110, 111, 116, 105, 99, 101>>,  \* "court notice"
    <<112, 97, 114, 99, 101, 108, 32, 115, 101, 105, 122, 101, 100>>,  \* "parcel seized"
    <<99, 117, 115, 116, 111, 109, 115, 32, 99, 108, 101, 97, 114, 97, 110, 99, 101>>,  \* "customs clearance"
    <<99, 108, 105, 99, 107, 32, 104, 101, 114, 101>>,  \* "click here"
    <<118, 101, 114, 105, 102, 121, 32, 110, 111, 119>>,  \* "verify now"
    <<115, 101, 99, 117, 114, 101, 32, 108, 105, 110, 107>>,  \* "secure link"
    <<115, 104, 111, 114, 116, 32, 117, 114, 108>>,  \* "short url"
    <<117, 114, 103, 101, 110, 116>>,  \* "urgent"
    <<102, 105, 110, 97, 108, 32, 119, 97, 114, 110, 105, 110, 103>>,  \* "final warning"
    <<105, 109, 109, 101, 100, 105, 97, 116, 101, 32, 97, 99, 116, 105, 111, 110>>,  \* "immediate action"
    <<109, 101, 101, 32, 97, 99, 99, 111, 117, 110, 116, 32, 98, 108, 111, 99, 107>>,  \* "mee account block"
    <<118, 101, 114, 105, 102, 121, 32, 99, 104, 101, 121, 97, 110, 100, 105>>,  \* "verify cheyandi"
    <<109, 111, 110, 101, 121, 32, 112, 97, 109, 112, 97, 110, 100, 105>>,  \* "money pampandi"
    <<108, 105, 110, 107, 32, 111, 112, 101, 110, 32, 99, 104, 101, 121>>,  \* "link open chey"
    <<97, 99, 99, 111, 117, 110, 116, 32, 98, 108, 111, 99, 107, 32, 97, 118, 117, 116, 117, 110, 100, 105>>,  \* "account block avutundi"
    <<97, 97, 112, 107, 97, 32, 97, 99, 99, 111, 117, 110, 116, 32, 98, 97, 110, 100>>,  \* "aapka account band"
    <<112, 97, 105, 115, 101, 32, 98, 104, 101, 106, 111>>,  \* "paise bhejo"
    <<111, 116, 112, 32, 98, 104, 101, 106, 111>>>>  \* "otp bhejo"

(***************************************************************************)
(* Configuration (src/main.py:13-19).  Times are kept in clock ticks of    *)
(* 1/TicksPerSecond s, so that int(time.time()) truncates.                 *)
(***************************************************************************)
API_KEY == "rakshak-secret-key"
MEMORY_TTL == 1800
RATE_LIMIT_WINDOW == 60
RATE_LIMIT_MAX == 60
TicksPerSecond == 2

(***************************************************************************)
(* Rationals n/d (d > 0) stand for the floats of the classifier.           *)
(***************************************************************************)
Rat(n, d) == [num |-> n, den |-> d]
RatLeq(a, b) == a.num * b.den <= b.num * a.den
\* min with the cap dropped
RatMinUncapped(a, b) == a
RatMin(a, b) == IF RatLeq(a, b) THEN a ELSE b
RatMax(a, b) == IF RatLeq(a, b) THEN b ELSE a

(***************************************************************************)
(* The statistical model loaded at start: absent (model.pkl missing), or   *)
(* a model that gives the probability num/den, or one whose call raises.   *)
(***************************************************************************)
NoModel == [loaded |-> FALSE, raises |-> FALSE, num |-> 0, den |-> 1]
Model(n, d) == [loaded |-> TRUE, raises |-> FALSE, num |-> n, den |-> d]
FailingModel == [loaded |-> TRUE, raises |-> TRUE, num |-> 0, den |-> 1]

(***************************************************************************)
(* Classifier.predict(text) with the loaded model ml and corpus dataset.   *)
(***************************************************************************)
KeywordScore(msg) ==
  Cardinality({i \in DOMAIN BASE_SCAM_KEYWORDS :
                 Contains(BASE_SCAM_KEYWORDS[i], msg)})

DatasetScore(msg, dataset) ==
  IF Len(msg) > 15 /\ \E i \in DOMAIN dataset : Contains(dataset[i], msg)
  THEN 3 ELSE 0

UpiTrigger(msg) == re_search(UPI_REGEX, msg)
\* "otp" in msg
OtpTrigger(msg) == Contains(<<111, 116, 112>>, msg)
\* "send" in msg and ("money" in msg or "amount" in msg)
SendTrigger(msg) ==
  /\ Contains(<<115, 101, 110, 100>>, msg)
  /\ \/ Contains(<<109, 111, 110, 101, 121>>, msg)
     \/ Contains(<<97, 109, 111, 117, 110, 116>>, msg)
HardTrigger(msg) == UpiTrigger(msg) \/ OtpTrigger(msg) \/ SendTrigger(msg)

HardScore(msg) ==
  (IF UpiTrigger(msg) THEN 7 ELSE 0) + (IF OtpTrigger(msg) THEN 6 ELSE 0)
    + (IF SendTrigger(msg) THEN 5 ELSE 0)

\* ml_conf as (num, den): 0.0 when no model is loaded or its call raises
MlConf(ml) == IF ml.loaded /\ ~ml.raises THEN Rat(ml.num, ml.den) ELSE Rat(0, 1)
\* int(ml_conf * 4)
MlScore(ml) == (MlConf(ml).num * 4) \div MlConf(ml).den

\* the bypass taken by empty messages only
ShortMessageEmptyOnly(msg) == WordCount(msg) < 1

ShortMessage(msg) == WordCount(msg) <= 2

\* predict with a cutover on the model's probability in the final decision
predict_cutover(text, ml, dataset) ==
  LET msg   == str_strip(str_lower(text))
      score == KeywordScore(msg) + DatasetScore(msg, dataset)
                 + HardScore(msg) + MlScore(ml)
      c     == MlConf(ml)
      confidence == RatMin(Rat(score * c.den + 12 * c.num, 24 * c.den), Rat(1, 1))
  IN  IF ShortMessage(msg) THEN [scam |-> FALSE, confidence |-> Rat(5, 100)]
      ELSE IF HardTrigger(msg)
           THEN [scam |-> TRUE, confidence |-> RatMax(confidence, Rat(7, 10))]
           ELSE [scam |-> score >= 8 \/ RatLeq(Rat(9, 10), c),
                 confidence |-> confidence]

predict(text, ml, dataset) ==
  LET msg   == str_strip(str_lower(text))
      score == KeywordScore(msg) + DatasetScore(msg, dataset)
                 + HardScore(msg) + MlScore(ml)
      c     == MlConf(ml)
      \* min((score / 12 + ml_conf) / 2, 1.0)
      confidence == RatMin(Rat(score * c.den + 12 * c.num, 24 * c.den), Rat(1, 1))
  IN  IF ShortMessage(msg) THEN [scam |-> FALSE, confidence |-> Rat(5, 100)]
      ELSE IF HardTrigger(msg)
           THEN [scam |-> TRUE, confidence |-> RatMax(confidence, Rat(7, 10))]
           ELSE [scam |-> score >= 8, confidence |-> confidence]

(***************************************************************************)
(* Helpers.                                                                *)
(***************************************************************************)
\* extract without the set(): every match, in the order found
extract_every_match(text) ==
  {[upi  |-> re_findall(UPI_REGEX, text),
    bank |-> re_findall(BANK_REGEX, text),
    url  |-> re_findall(URL_REGEX, text)]}

\* the results extract(text) can return: the three lists, each in any order
extract(text) ==
  {[upi |-> u, bank |-> b, url |-> l] :
     u \in ToList(ToSet(re_findall(UPI_REGEX, text))),
     b \in ToList(ToSet(re_findall(BANK_REGEX, text))),
     l \in ToList(ToSet(re_findall(URL_REGEX, text)))}

\* detect_ai without the test of the length
detect_ai_any_length(history) ==
  Cardinality({WordCount(history[i]) :
                 i \in SetMax({1, Len(history)-2})..Len(history)}) = 1

detect_ai(history) ==
  IF Len(history) < 3 THEN FALSE
  ELSE Cardinality({WordCount(history[i]) :
                      i \in (Len(history)-2)..Len(history)}) = 1

(***************************************************************************)
(* Message texts used as inputs.                                           *)
(***************************************************************************)
MsgEmpty == <<>>
\* "hi"
MsgHi == <<104, 105>>
\* "ok"
MsgOk == <<111, 107>>
\* "thanks"
MsgThanks == <<116, 104, 97, 110, 107, 115>>
\* "yes"
MsgYes == <<121, 101, 115>>
\* "hello bro"
MsgHelloBro == <<104, 101, 108, 108, 111, 32, 98, 114, 111>>
\* "otp"
MsgOtp == <<111, 116, 112>>
\* "share otp"
MsgShareOtp == <<115, 104, 97, 114, 101, 32, 111, 116, 112>>
\* "rahul@upi"
MsgUpiOnly == <<114, 97, 104, 117, 108, 64, 117, 112, 105>>
\* "pay to rahul@upi now"
MsgPayUpi == <<112, 97, 121, 32, 116, 111, 32, 114, 97, 104, 117, 108, 64, 117, 112, 105, 32, 110, 111, 119>>
\* "send money now"
MsgSendMoney == <<115, 101, 110, 100, 32, 109, 111, 110, 101, 121, 32, 110, 111, 119>>
\* "Please SEND the amount"
MsgSendAmount == <<80, 108, 101, 97, 115, 101, 32, 83, 69, 78, 68, 32, 116, 104, 101, 32, 97, 109, 111, 117, 110, 116>>
\* "my laptop is slow"
MsgLaptop == <<109, 121, 32, 108, 97, 112, 116, 111, 112, 32, 105, 115, 32, 115, 108, 111, 119>>
\* "see you tomorrow morning"
MsgSafe == <<115, 101, 101, 32, 121, 111, 117, 32, 116, 111, 109, 111, 114, 114, 111, 119, 32, 109, 111, 114, 110, 105, 110, 103>>
\* "your account is blocked, verify at http://bad.link"
MsgTurn2 == <<121, 111, 117, 114, 32, 97, 99, 99, 111, 117, 110, 116, 32, 105, 115, 32, 98, 108, 111, 99, 107, 101, 100, 44, 32, 118, 101, 114, 105, 102, 121, 32, 97, 116, 32, 104, 116, 116, 112, 58, 47, 47, 98, 97, 100, 46, 108, 105, 110, 107>>
\* "send money to scammer@upi"
MsgTurn3 == <<115, 101, 110, 100, 32, 109, 111, 110, 101, 121, 32, 116, 111, 32, 115, 99, 97, 109, 109, 101, 114, 64, 117, 112, 105>>
\* "urgent lottery you won cash prize lucky draw click here verify now legal notice"
MsgManyKeywords == <<117, 114, 103, 101, 110, 116, 32, 108, 111, 116, 116, 101, 114, 121, 32, 121, 111, 117, 32, 119, 111, 110, 32, 99, 97, 115, 104, 32, 112, 114, 105, 122, 101, 32, 108, 117, 99, 107, 121, 32, 100, 114, 97, 119, 32, 99, 108, 105, 99, 107, 32, 104, 101, 114, 101, 32, 118, 101, 114, 105, 102, 121, 32, 110, 111, 119, 32, 108, 101, 103, 97, 108, 32, 110, 111, 116, 105, 99, 101>>
\* "urgent lottery you won cash prize lucky draw click here verify now"
MsgSevenKeywords == <<117, 114, 103, 101, 110, 116, 32, 108, 111, 116, 116, 101, 114, 121, 32, 121, 111, 117, 32, 119, 111, 110, 32, 99, 97, 115, 104, 32, 112, 114, 105, 122, 101, 32, 108, 117, 99, 107, 121, 32, 100, 114, 97, 119, 32, 99, 108, 105, 99, 107, 32, 104, 101, 114, 101, 32, 118, 101, 114, 105, 102, 121, 32, 110, 111, 119>>
\* "urgent share otp and send money to a@b"
MsgAllTriggers == <<117, 114, 103, 101, 110, 116, 32, 115, 104, 97, 114, 101, 32, 111, 116, 112, 32, 97, 110, 100, 32, 115, 101, 110, 100, 32, 109, 111, 110, 101, 121, 32, 116, 111, 32, 97, 64, 98>>
\* "your bank account is blocked. please verify now."
MsgTemplate == <<121, 111, 117, 114, 32, 98, 97, 110, 107, 32, 97, 99, 99, 111, 117, 110, 116, 32, 105, 115, 32, 98, 108, 111, 99, 107, 101, 100, 46, 32, 112, 108, 101, 97, 115, 101, 32, 118, 101, 114, 105, 102, 121, 32, 110, 111, 119, 46>>
\* "acct 123456789 ok"
MsgBank == <<97, 99, 99, 116, 32, 49, 50, 51, 52, 53, 54, 55, 56, 57, 32, 111, 107>>
\* "x@y 123456789 http://u.v"
MsgMixed == <<120, 64, 121, 32, 49, 50, 51, 52, 53, 54, 55, 56, 57, 32, 104, 116, 116, 112, 58, 47, 47, 117, 46, 118>>
\* "  ok \n"
MsgPadded == <<32, 32, 111, 107, 32, 10>>
\* "share", "otp", "now" on three lines that end with CR LF
MsgCrLf == <<115, 104, 97, 114, 101, 13, 10, 111, 116, 112, 13, 10, 110, 111, 119>>
\* "e@e pay now" with both e as U+00E9
MsgAccentUpi == <<233, 64, 233, 32, 112, 97, 121, 32, 110, 111, 119>>
\* "Istanbul OTP now" with the I as U+0130, capital I with a dot above
MsgDottedI == <<304, 115, 116, 97, 110, 98, 117, 108, 32, 79, 84, 80, 32, 110, 111, 119>>
\* "clicK here urgent" with the K as U+212A, the Kelvin sign
MsgKelvin == <<99, 108, 105, 99, 75, 32, 104, 101, 114, 101, 32, 117, 114, 103, 101, 110, 116>>
\* "hi there friend" with U+00A0, the no-break space, between the words
MsgNbsp == <<104, 105, 160, 116, 104, 101, 114, 101, 160, 102, 114, 105, 101, 110, 100>>
\* "acct 123456789 ok" with the digits as U+0661..U+0669
MsgArabicDigits == <<97, 99, 99, 116, 32, 1633, 1634, 1635, 1636, 1637, 1638, 1639, 1640, 1641, 32, 111, 107>>

(***************************************************************************)
(* State.                                                                  *)
(*   clock      time.time() in ticks; it moves on between requests and,    *)
(*              inside a request, between the handler's two readings       *)
(*   rate       STORE.rate:   ip  -> [ts (s), count]                       *)
(*   memory     STORE.memory: cid -> [ts (ticks), history]                 *)
(*   graph      STORE.graph["upi"]: payment identifier -> count            *)
(*   outbox     the outbound reports posted to the external collector      *)
(*   ML_MODEL, DATASET   what was loaded at start                          *)
(*   req, resp  the last request handled, with the clock as read on line   *)
(*              115 (at) and on line 124 (at_history), and its response    *)
(*   pre        the store as it was when that request arrived              *)
(*   text, verdict       an input of Classifier.predict and its result     *)
(*   buckets, sessions   the dict objects of the store, by identity         *)
(*   rateRef, memoryRef  STORE.rate and STORE.memory as references to them  *)
(*   frame      each worker's request, position and local variables        *)
(* A Python dict is a function on the set of its keys; {} is <<>>.         *)
(***************************************************************************)
VARIABLES clock, rate, memory, graph, outbox, ML_MODEL, DATASET,
          req, resp, pre, text, verdict,
          buckets, sessions, rateRef, memoryRef, frame

vars == <<clock, rate, memory, graph, outbox, ML_MODEL, DATASET,
          req, resp, pre, text, verdict,
          buckets, sessions, rateRef, memoryRef, frame>>
workerVars == <<buckets, sessions, rateRef, memoryRef, frame>>

\* d[k] = v
DictSet(d, k, v) == [x \in DOMAIN d \cup {k} |-> IF x = k THEN v ELSE d[x]]
\* d.get(k, default)
DictGet(d, k, default) == IF k \in DOMAIN d THEN d[k] ELSE default

\* int(time.time()) and time.time() at clock reading t
IntSeconds(t) == t \div TicksPerSecond
Seconds(s) == s * TicksPerSecond

\* The handler reads the clock twice, in rate_limited (115) and in history
\* (124); at most MaxLatency ticks pass between the two readings.
MaxLatency == 1
LaterReadings(t) == t..(t + MaxLatency)

(***************************************************************************)
(* Storage (src/main.py:108-132).  Each operator gives the dict after the  *)
(* call and, where the method returns something, the result.               *)
(***************************************************************************)
\* rate_limited with the ceiling reached one request early (>= for >)
rate_limited_early(rt, ip, t) ==
  LET now == IntSeconds(t)
  IN  IF ip \notin DOMAIN rt \/ now - rt[ip].ts > RATE_LIMIT_WINDOW
      THEN [rate |-> DictSet(rt, ip, [ts |-> now, count |-> 1]),
            result |-> FALSE]
      ELSE [rate |-> [rt EXCEPT ![ip].count = @ + 1],
            result |-> rt[ip].count + 1 >= RATE_LIMIT_MAX]

rate_limited(rt, ip, t) ==
  LET now == IntSeconds(t)
  IN  IF ip \notin DOMAIN rt \/ now - rt[ip].ts > RATE_LIMIT_WINDOW
      THEN [rate |-> DictSet(rt, ip, [ts |-> now, count |-> 1]),
            result |-> FALSE]
      ELSE [rate |-> [rt EXCEPT ![ip].count = @ + 1],
            result |-> rt[ip].count + 1 > RATE_LIMIT_MAX]

\* the session's TTL has run out at clock reading t
Expired(mem, cid, t) == t - mem[cid].ts > Seconds(MEMORY_TTL)

\* history without the refresh of the last-active time
history_no_refresh(mem, cid, t) ==
  IF cid \notin DOMAIN mem \/ Expired(mem, cid, t)
  THEN DictSet(mem, cid, [ts |-> t, history |-> <<>>])
  ELSE mem

history(mem, cid, t) ==
  LET m1 == IF cid \notin DOMAIN mem \/ Expired(mem, cid, t)
            THEN DictSet(mem, cid, [ts |-> t, history |-> <<>>])
            ELSE mem
  IN  [m1 EXCEPT ![cid].ts = t]

RECURSIVE update_graph(_,_)
update_graph(g, upis) ==
  IF upis = <<>> THEN g
  ELSE update_graph(DictSet(g, Head(upis), DictGet(g, Head(upis), 0) + 1),
                    Tail(upis))

(***************************************************************************)
(* POST /honeypot (src/main.py:240-278), one request handled from its      *)
(* first line to its response, with no other request in between (SpecConc  *)
(* has the handler statement by statement).  The clock is read on entry to *)
(* rate_limited and again in history, and may have moved on by then; the   *)
(* request leaves the clock at its last reading.  The reply text and       *)
(* latency_ms are drawn at random by the handler and are left out of the   *)
(* response.                                                               *)
(***************************************************************************)
\* the session id taken from the client's address whatever the request says
SessionIdOfClient(ip, conversation_id) == ip

SessionId(ip, conversation_id) ==
  IF conversation_id = "" THEN ip ELSE conversation_id

\* the response, given what extract returned as intel
Response(message, hist, intel) ==
  LET p     == predict(message, ML_MODEL, DATASET)
  IN  [status |-> 200,
       scam_detected |-> p.scam,
       confidence |-> p.confidence,
       conversation_turns |-> Len(hist),
       agent_active |-> p.scam,
       ai_suspected |-> detect_ai(hist),
       upi_ids |-> intel.upi,
       bank_accounts |-> intel.bank,
       phishing_urls |-> intel.url,
       network_score |-> Len(intel.upi),
       forensic_valid |-> FALSE]

\* the handler with the rate check before the key check
honeypot_rate_first(ip, conversation_id, message, x_api_key) ==
  LET rl   == rate_limited(rate, ip, clock)
      cid  == SessionId(ip, conversation_id)
      r0   == [ip |-> ip, conversation_id |-> conversation_id,
               message |-> message, x_api_key |-> x_api_key,
               at |-> clock, at_history |-> clock]
  IN  /\ pre' = [rate |-> rate, memory |-> memory, graph |-> graph]
      /\ IF rl.result
         THEN /\ resp' = [status |-> 429]
              /\ req' = r0
              /\ rate' = rl.rate
              /\ UNCHANGED <<clock, memory, graph>>
         ELSE IF x_api_key # API_KEY
         THEN /\ resp' = [status |-> 401]
              /\ req' = r0
              /\ rate' = rl.rate
              /\ UNCHANGED <<clock, memory, graph>>
         ELSE \E now \in LaterReadings(clock) :
                LET mem  == history(memory, cid, now)
                    hist == Append(mem[cid].history, message)
                IN  \E intel \in extract(Join(hist)) :
                       /\ clock' = now
                       /\ req' = [r0 EXCEPT !.at_history = now]
                       /\ rate' = rl.rate
                       /\ memory' = [mem EXCEPT ![cid].history = hist]
                       /\ graph' = update_graph(graph, intel.upi)
                       /\ resp' = Response(message, hist, intel)
      /\ UNCHANGED <<outbox, ML_MODEL, DATASET, text, verdict>>
      /\ UNCHANGED workerVars

\* the handler with the session fetched before the rate check
honeypot_session_first(ip, conversation_id, message, x_api_key) ==
  LET rl   == rate_limited(rate, ip, clock)
      cid  == SessionId(ip, conversation_id)
      r0   == [ip |-> ip, conversation_id |-> conversation_id,
               message |-> message, x_api_key |-> x_api_key,
               at |-> clock, at_history |-> clock]
  IN  /\ pre' = [rate |-> rate, memory |-> memory, graph |-> graph]
      /\ IF x_api_key # API_KEY
         THEN /\ resp' = [status |-> 401]
              /\ req' = r0
              /\ UNCHANGED <<clock, rate, memory, graph>>
         ELSE IF rl.result
         THEN /\ resp' = [status |-> 429]
              /\ req' = r0
              /\ rate' = rl.rate
              /\ memory' = history(memory, cid, clock)
              /\ UNCHANGED <<clock, graph>>
         ELSE \E now \in LaterReadings(clock) :
                LET mem  == history(memory, cid, now)
                    hist == Append(mem[cid].history, message)
                IN  \E intel \in extract(Join(hist)) :
                       /\ clock' = now
                       /\ req' = [r0 EXCEPT !.at_history = now]
                       /\ rate' = rl.rate
                       /\ memory' = [mem EXCEPT ![cid].history = hist]
                       /\ graph' = update_graph(graph, intel.upi)
                       /\ resp' = Response(message, hist, intel)
      /\ UNCHANGED <<outbox, ML_MODEL, DATASET, text, verdict>>
      /\ UNCHANGED workerVars

honeypot(ip, conversation_id, message, x_api_key) ==
  LET rl   == rate_limited(rate, ip, clock)
      cid  == SessionId(ip, conversation_id)
      r0   == [ip |-> ip, conversation_id |-> conversation_id,
               message |-> message, x_api_key |-> x_api_key,
               at |-> clock, at_history |-> clock]
  IN  /\ pre' = [rate |-> rate, memory |-> memory, graph |-> graph]
      /\ IF x_api_key # API_KEY
         THEN /\ resp' = [status |-> 401]
              /\ req' = r0
              /\ UNCHANGED <<clock, rate, memory, graph>>
         ELSE IF rl.result
         THEN /\ resp' = [status |-> 429]
              /\ req' = r0
              /\ rate' = rl.rate
              /\ UNCHANGED <<clock, memory, graph>>
         ELSE \E now \in LaterReadings(clock) :
                LET mem  == history(memory, cid, now)
                    hist == Append(mem[cid].history, message)
                IN  \E intel \in extract(Join(hist)) :
                       /\ clock' = now
                       /\ req' = [r0 EXCEPT !.at_history = now]
                       /\ rate' = rl.rate
                       /\ memory' = [mem EXCEPT ![cid].history = hist]
                       /\ graph' = update_graph(graph, intel.upi)
                       /\ resp' = Response(message, hist, intel)
      /\ UNCHANGED <<outbox, ML_MODEL, DATASET, text, verdict>>
      /\ UNCHANGED workerVars

\* time passes: the clock moves on to a later instant of the set
Tick(instants) ==
  /\ \E t \in instants : t > clock /\ clock' = t
  /\ UNCHANGED <<rate, memory, graph, outbox, ML_MODEL, DATASET,
                 req, resp, pre, text, verdict>>
  /\ UNCHANGED workerVars

NoRequest == [status |-> 0]

StoreInit ==
  /\ clock = 0
  /\ rate = <<>>
  /\ memory = <<>>
  /\ graph = <<>>
  /\ outbox = <<>>
  /\ req = NoRequest
  /\ resp = NoRequest
  /\ pre = NoRequest

\* no worker holds a request: the handler runs from its first line to its last
NoWorkers ==
  /\ buckets = <<>>
  /\ sessions = <<>>
  /\ rateRef = <<>>
  /\ memoryRef = <<>>
  /\ frame = <<>>

(***************************************************************************)
(* Spec: sessions.  Requests of one client, with and without a             *)
(* conversation id, over instants around the session TTL.                  *)
(***************************************************************************)
MaxHist == 2
MaxTtlSpans == 1

Clients == {"10.0.0.1"}
ConversationIds == {""}
ApiKeys == {API_KEY, "wrong"}
Messages == {MsgHi, MsgPayUpi, MsgMixed}
SessionInstants ==
  {a + c * Seconds(MEMORY_TTL) : a \in 0..1, c \in 0..MaxTtlSpans}

\* the session the request goes to has room for one more message
HasRoom(cid, bound) ==
  IF cid \notin DOMAIN memory THEN TRUE
  ELSE IF Expired(memory, cid, clock) THEN TRUE
  ELSE Len(memory[cid].history) < bound

Init ==
  /\ StoreInit
  /\ NoWorkers
  /\ ML_MODEL = NoModel
  /\ DATASET = <<>>
  /\ text = <<>>
  /\ verdict = <<>>

Request ==
  \E ip \in Clients, c \in ConversationIds, m \in Messages :
     /\ HasRoom(SessionId(ip, c), MaxHist)
     /\ honeypot(ip, c, m, API_KEY)
     /\ clock' \in SessionInstants

Unauthorized ==
  \E ip \in Clients, k \in ApiKeys \ {API_KEY} : honeypot(ip, "", MsgHi, k)

Next == Tick(SessionInstants) \/ Request \/ Unauthorized

Spec == Init /\ [][Next]_vars

(***************************************************************************)
(* SpecRate: one client fills its rate-limit window.  It sends MsgHi under *)
(* its own address and, once, a message with a payment identifier under    *)
(* the conversation id "s1".  Time passes, over instants around the window *)
(* length, between requests and between the two clock readings of a        *)
(* request, only before the second request of a window and from the last   *)
(* request but one under the ceiling on.                                   *)
(***************************************************************************)
MaxOver == 2
MaxWindows == 1

RateClient == "10.0.0.1"
RateInstants ==
  {a + b * Seconds(RATE_LIMIT_WINDOW) :
     a \in 0..TicksPerSecond, b \in 0..MaxWindows}

\* the bucket's count once the next request of the client is counted
NextCount(ip) == rate_limited(rate, ip, clock).rate[ip].count

NearEdge(ip) ==
  IF ip \notin DOMAIN rate THEN TRUE
  ELSE rate[ip].count <= 1 \/ rate[ip].count >= RATE_LIMIT_MAX - 1

RateTick == NearEdge(RateClient) /\ Tick(RateInstants)

RateFill ==
  /\ NextCount(RateClient) <= RATE_LIMIT_MAX + MaxOver
  /\ IF rate_limited(rate, RateClient, clock).result THEN TRUE
     ELSE HasRoom(RateClient, RATE_LIMIT_MAX + MaxOver)
  /\ honeypot(RateClient, "", MsgHi, API_KEY)
  /\ clock' \in RateInstants
  /\ clock' # clock => NearEdge(RateClient)

RateSide ==
  /\ NextCount(RateClient) <= RATE_LIMIT_MAX + MaxOver
  /\ IF rate_limited(rate, RateClient, clock).result THEN TRUE
     ELSE "s1" \notin DOMAIN memory
  /\ honeypot(RateClient, "s1", MsgPayUpi, API_KEY)
  /\ clock' \in RateInstants
  /\ clock' # clock => NearEdge(RateClient)

InitRate ==
  /\ StoreInit
  /\ NoWorkers
  /\ ML_MODEL = NoModel
  /\ DATASET = <<>>
  /\ text = <<>>
  /\ verdict = <<>>

NextRate == RateTick \/ RateFill \/ RateSide

SpecRate == InitRate /\ [][NextRate]_vars

(***************************************************************************)
(* SpecPredict: Classifier.predict as a function of the message text, the  *)
(* loaded model and the loaded corpus.                                     *)
(***************************************************************************)
PredictTexts ==
  {MsgEmpty, MsgHi, MsgOk, MsgThanks, MsgYes, MsgHelloBro, MsgPadded,
   MsgOtp, MsgShareOtp, MsgUpiOnly, MsgPayUpi, MsgSendMoney, MsgSendAmount,
   MsgLaptop, MsgSafe, MsgTurn2, MsgTurn3, MsgManyKeywords,
   MsgSevenKeywords, MsgAllTriggers, MsgTemplate, MsgBank, MsgMixed,
   MsgCrLf, MsgAccentUpi, MsgDottedI, MsgKelvin, MsgNbsp, MsgArabicDigits}
MlModels ==
  {NoModel, FailingModel, Model(0, 1), Model(1, 4), Model(1, 2),
   Model(19, 20), Model(1, 1)}
Datasets == {<<>>, <<MsgTemplate>>, <<MsgThanks, MsgHi>>}

InitPredict ==
  /\ StoreInit
  /\ NoWorkers
  /\ ML_MODEL \in MlModels
  /\ DATASET \in Datasets
  /\ text \in PredictTexts
  /\ verdict = <<>>

\* CLASSIFIER.predict(text) is called and returns
Classify ==
  /\ verdict = <<>>
  /\ verdict' = <<predict(text, ML_MODEL, DATASET)>>
  /\ UNCHANGED <<clock, rate, memory, graph, outbox, ML_MODEL, DATASET,
                 req, resp, pre, text>>
  /\ UNCHANGED workerVars

NextPredict == Classify

SpecPredict == InitPredict /\ [][NextPredict]_vars

(***************************************************************************)
(* SpecConc: the handler run by concurrent workers (the server runs a      *)
(* plain def route in a thread pool).  A worker may be preempted between   *)
(* any two statements that touch the store, and inside r["count"] += 1 and *)
(* the graph update of line 132 between the load and the store.  The dict  *)
(* objects of the store are kept by identity: buckets[i] and sessions[i]   *)
(* are the i-th objects created, rateRef and memoryRef map a key to the    *)
(* object now stored under it, and a worker's r and hist are the objects   *)
(* it fetched, which another worker may since have replaced.  The requests *)
(* arrive within one second, with a valid or a wrong key.                  *)
(***************************************************************************)
MaxPerWorker == 1

Workers == {"w1", "w2"}
ConcClient == "10.0.0.1"
ConcConversationIds == {"", "s1"}
ConcMessage(w) == IF w = "w1" THEN MsgHi ELSE MsgPayUpi
ConcInstants == 0..TicksPerSecond

NoIntel == [upi |-> <<>>, bank |-> <<>>, url |-> <<>>]

IdleFrame ==
  [pc |-> "idle", ip |-> "", conversation_id |-> "", message |-> <<>>,
   now |-> 0, r |-> 0, tmp |-> 0, hist |-> 0, ai |-> FALSE,
   intel |-> NoIntel, upis |-> <<>>, done |-> <<>>]

seqVars == <<clock, rate, memory, outbox, ML_MODEL, DATASET,
             req, resp, pre, text, verdict>>

InitConc ==
  /\ StoreInit
  /\ buckets = <<>>
  /\ sessions = <<>>
  /\ rateRef = <<>>
  /\ memoryRef = <<>>
  /\ frame = [w \in Workers |-> IdleFrame]
  /\ ML_MODEL = NoModel
  /\ DATASET = <<>>
  /\ text = <<>>
  /\ verdict = <<>>

Cid(w) == SessionId(frame[w].ip, frame[w].conversation_id)

\* the worker's request is answered, with what the worker holds of it
Finish(w, status, turns) ==
  [frame EXCEPT ![w] =
     [IdleFrame EXCEPT !.done =
        Append(frame[w].done,
               [ip |-> frame[w].ip, cid |-> Cid(w),
                message |-> frame[w].message,
                status |-> status, conversation_turns |-> turns,
                ai_suspected |-> frame[w].ai,
                upi_ids |-> frame[w].intel.upi,
                bank_accounts |-> frame[w].intel.bank,
                phishing_urls |-> frame[w].intel.url,
                network_score |-> Len(frame[w].intel.upi)])]]

\* time passes while the workers run
ConcTick ==
  /\ \E t \in ConcInstants : t > clock /\ clock' = t
  /\ UNCHANGED <<rate, memory, graph, outbox, ML_MODEL, DATASET,
                 req, resp, pre, text, verdict>>
  /\ UNCHANGED workerVars

\* honeypot is entered with a valid key (241-245)
Receive(w) ==
  /\ frame[w].pc = "idle"
  /\ Len(frame[w].done) < MaxPerWorker
  /\ \E c \in ConcConversationIds :
        frame' = [frame EXCEPT ![w].pc = "rate_now", ![w].ip = ConcClient,
                               ![w].conversation_id = c,
                               ![w].message = ConcMessage(w)]
  /\ UNCHANGED <<buckets, sessions, rateRef, memoryRef, graph>>
  /\ UNCHANGED seqVars

\* honeypot is entered with a wrong key and raises 401 (241-243)
Reject(w) ==
  /\ frame[w].pc = "idle"
  /\ Len(frame[w].done) < MaxPerWorker
  /\ frame' = Finish(w, 401, 0)
  /\ UNCHANGED <<buckets, sessions, rateRef, memoryRef, graph>>
  /\ UNCHANGED seqVars

\* now = int(time.time())   (115)
RateNow(w) ==
  /\ frame[w].pc = "rate_now"
  /\ frame' = [frame EXCEPT ![w].pc = "rate_get",
                            ![w].now = IntSeconds(clock)]
  /\ UNCHANGED <<buckets, sessions, rateRef, memoryRef, graph>>
  /\ UNCHANGED seqVars

\* r = self.rate.get(ip)   (116)
RateGet(w) ==
  /\ frame[w].pc = "rate_get"
  /\ frame' = [frame EXCEPT ![w].pc = "rate_test",
                            ![w].r = DictGet(rateRef, frame[w].ip, 0)]
  /\ UNCHANGED <<buckets, sessions, rateRef, memoryRef, graph>>
  /\ UNCHANGED seqVars

\* if not r or now - r["ts"] > RATE_LIMIT_WINDOW: self.rate[ip] = {...}   (117-119)
RateTest(w) ==
  /\ frame[w].pc = "rate_test"
  /\ IF (IF frame[w].r = 0 THEN TRUE
         ELSE frame[w].now - buckets[frame[w].r].ts > RATE_LIMIT_WINDOW)
     THEN /\ buckets' = Append(buckets, [ts |-> frame[w].now, count |-> 1])
          /\ rateRef' = DictSet(rateRef, frame[w].ip, Len(buckets) + 1)
          /\ frame' = [frame EXCEPT ![w].pc = "hist_now"]
     ELSE /\ frame' = [frame EXCEPT ![w].pc = "rate_read"]
          /\ UNCHANGED <<buckets, rateRef>>
  /\ UNCHANGED <<sessions, memoryRef, graph>>
  /\ UNCHANGED seqVars

\* r["count"] += 1, the load   (120)
RateRead(w) ==
  /\ frame[w].pc = "rate_read"
  /\ frame' = [frame EXCEPT ![w].pc = "rate_write",
                            ![w].tmp = buckets[frame[w].r].count]
  /\ UNCHANGED <<buckets, sessions, rateRef, memoryRef, graph>>
  /\ UNCHANGED seqVars

\* r["count"] += 1, the store   (120)
RateWrite(w) ==
  /\ frame[w].pc = "rate_write"
  /\ buckets' = [buckets EXCEPT ![frame[w].r].count = frame[w].tmp + 1]
  /\ frame' = [frame EXCEPT ![w].pc = "rate_return"]
  /\ UNCHANGED <<sessions, rateRef, memoryRef, graph>>
  /\ UNCHANGED seqVars

\* return r["count"] > RATE_LIMIT_MAX, and the 429 of the handler   (121, 246-247)
RateReturn(w) ==
  /\ frame[w].pc = "rate_return"
  /\ frame' = IF buckets[frame[w].r].count > RATE_LIMIT_MAX
               THEN Finish(w, 429, 0)
               ELSE [frame EXCEPT ![w].pc = "hist_now"]
  /\ UNCHANGED <<buckets, sessions, rateRef, memoryRef, graph>>
  /\ UNCHANGED seqVars

\* now = time.time()   (124)
HistNow(w) ==
  /\ frame[w].pc = "hist_now"
  /\ frame' = [frame EXCEPT ![w].pc = "hist_test", ![w].now = clock]
  /\ UNCHANGED <<buckets, sessions, rateRef, memoryRef, graph>>
  /\ UNCHANGED seqVars

\* if cid not in self.memory or now - self.memory[cid]["ts"] > MEMORY_TTL   (125)
HistTest(w) ==
  /\ frame[w].pc = "hist_test"
  /\ frame' = [frame EXCEPT
                 ![w].pc = IF (IF Cid(w) \notin DOMAIN memoryRef THEN TRUE
                               ELSE frame[w].now - sessions[memoryRef[Cid(w)]].ts
                                      > Seconds(MEMORY_TTL))
                           THEN "hist_new" ELSE "hist_ts"]
  /\ UNCHANGED <<buckets, sessions, rateRef, memoryRef, graph>>
  /\ UNCHANGED seqVars

\* self.memory[cid] = {"ts": now, "history": []}   (126)
HistNew(w) ==
  /\ frame[w].pc = "hist_new"
  /\ sessions' = Append(sessions, [ts |-> frame[w].now, history |-> <<>>])
  /\ memoryRef' = DictSet(memoryRef, Cid(w), Len(sessions) + 1)
  /\ frame' = [frame EXCEPT ![w].pc = "hist_ts"]
  /\ UNCHANGED <<buckets, rateRef, graph>>
  /\ UNCHANGED seqVars

\* self.memory[cid]["ts"] = now   (127)
HistTs(w) ==
  /\ frame[w].pc = "hist_ts"
  /\ sessions' = [sessions EXCEPT ![memoryRef[Cid(w)]].ts = frame[w].now]
  /\ frame' = [frame EXCEPT ![w].pc = "hist_return"]
  /\ UNCHANGED <<buckets, rateRef, memoryRef, graph>>
  /\ UNCHANGED seqVars

\* history = STORE.history(cid): return self.memory[cid]["history"]   (128, 250)
HistReturn(w) ==
  /\ frame[w].pc = "hist_return"
  /\ frame' = [frame EXCEPT ![w].pc = "append",
                            ![w].hist = memoryRef[Cid(w)]]
  /\ UNCHANGED <<buckets, sessions, rateRef, memoryRef, graph>>
  /\ UNCHANGED seqVars

\* history.append(data.message)   (251)
AppendMessage(w) ==
  /\ frame[w].pc = "append"
  /\ sessions' = [sessions EXCEPT ![frame[w].hist].history =
                                   Append(@, frame[w].message)]
  /\ frame' = [frame EXCEPT ![w].pc = "detect_ai"]
  /\ UNCHANGED <<buckets, rateRef, memoryRef, graph>>
  /\ UNCHANGED seqVars

\* scam, conf = CLASSIFIER.predict(data.message); ai = detect_ai(history)
\* (253-254): the list is read as it is now
DetectAi(w) ==
  /\ frame[w].pc = "detect_ai"
  /\ frame' = [frame EXCEPT
                 ![w].pc = "extract",
                 ![w].ai = detect_ai(sessions[frame[w].hist].history)]
  /\ UNCHANGED <<buckets, sessions, rateRef, memoryRef, graph>>
  /\ UNCHANGED seqVars

\* upi, bank, url = extract(" ".join(history))   (256)
Extract(w) ==
  /\ frame[w].pc = "extract"
  /\ \E intel \in extract(Join(sessions[frame[w].hist].history)) :
        frame' = [frame EXCEPT ![w].pc = "graph_for",
                               ![w].intel = intel,
                               ![w].upis = intel.upi]
  /\ UNCHANGED <<buckets, sessions, rateRef, memoryRef, graph>>
  /\ UNCHANGED seqVars

\* STORE.update_graph(upi): for u in upis   (257, 131)
GraphFor(w) ==
  /\ frame[w].pc = "graph_for"
  /\ frame' = [frame EXCEPT ![w].pc = IF frame[w].upis = <<>>
                                      THEN "respond" ELSE "graph_read"]
  /\ UNCHANGED <<buckets, sessions, rateRef, memoryRef, graph>>
  /\ UNCHANGED seqVars

\* self.graph["upi"][u] = self.graph["upi"].get(u, 0) + 1, the load   (132)
GraphRead(w) ==
  /\ frame[w].pc = "graph_read"
  /\ frame' = [frame EXCEPT ![w].pc = "graph_write",
                            ![w].tmp = DictGet(graph, Head(frame[w].upis), 0)]
  /\ UNCHANGED <<buckets, sessions, rateRef, memoryRef, graph>>
  /\ UNCHANGED seqVars

\* self.graph["upi"][u] = self.graph["upi"].get(u, 0) + 1, the store   (132)
GraphWrite(w) ==
  /\ frame[w].pc = "graph_write"
  /\ graph' = DictSet(graph, Head(frame[w].upis), frame[w].tmp + 1)
  /\ frame' = [frame EXCEPT ![w].pc = "graph_for",
                            ![w].upis = Tail(frame[w].upis)]
  /\ UNCHANGED <<buckets, sessions, rateRef, memoryRef>>
  /\ UNCHANGED seqVars

\* the response, with conversation_turns = len(history) as the list is now
\* (259-278)
Respond(w) ==
  /\ frame[w].pc = "respond"
  /\ frame' = Finish(w, 200, Len(sessions[frame[w].hist].history))
  /\ UNCHANGED <<buckets, sessions, rateRef, memoryRef, graph>>
  /\ UNCHANGED seqVars

NextConc ==
  \/ ConcTick
  \/ \E w \in Workers :
     \/ Receive(w)
     \/ Reject(w)
     \/ RateNow(w)
     \/ RateGet(w)
     \/ RateTest(w)
     \/ RateRead(w)
     \/ RateWrite(w)
     \/ RateReturn(w)
     \/ HistNow(w)
     \/ HistTest(w)
     \/ HistNew(w)
     \/ HistTs(w)
     \/ HistReturn(w)
     \/ AppendMessage(w)
     \/ DetectAi(w)
     \/ Extract(w)
     \/ GraphFor(w)
     \/ GraphRead(w)
     \/ GraphWrite(w)
     \/ Respond(w)

SpecConc == InitConc /\ [][NextConc]_vars

(***************************************************************************)
(* SpecTurns: one session of one client grows turn by turn, with messages  *)
(* of one, two and four words.                                             *)
(***************************************************************************)
MaxTurns == 3

TurnClient == "10.0.0.1"
TurnMessages == {MsgHi, MsgOk, MsgHelloBro, MsgShareOtp, MsgPayUpi}

Turn ==
  \E m \in TurnMessages :
     /\ HasRoom(SessionId(TurnClient, ""), MaxTurns)
     /\ honeypot(TurnClient, "", m, API_KEY)

NextTurns == Turn

SpecTurns == Init /\ [][NextTurns]_vars

(***************************************************************************)
(* Properties.  Those about the last request read it from req, its         *)
(* response from resp and the store it found from pre.                     *)
(***************************************************************************)
\* the last request passed the key check and was counted by the rate limiter
Counted == resp.status = 200 \/ resp.status = 429
\* int(time.time()) as the rate limiter read it for the last request
ReqNow == IntSeconds(req.at)
\* the session the last request went to
ReqCid == SessionId(req.ip, req.conversation_id)
\* the last request found its session, and found it past its TTL when it
\* read the clock in Storage.history
FoundStale ==
  IF ReqCid \notin DOMAIN pre.memory THEN FALSE
  ELSE req.at_history - pre.memory[ReqCid].ts > Seconds(MEMORY_TTL)
\* the last request found its session, within its TTL
FoundLive ==
  IF ReqCid \notin DOMAIN pre.memory THEN FALSE
  ELSE req.at_history - pre.memory[ReqCid].ts <= Seconds(MEMORY_TTL)

(* C1: fixed-window rate limiting.  A counted request that finds no bucket, *)
(* or finds the whole-second clock more than RATE_LIMIT_WINDOW past the     *)
(* window start, is accepted and leaves the bucket at count 1 with the      *)
(* window started now, however many requests the old window held.  Any      *)
(* other counted request is the (count + 1)-th of its window: it leaves     *)
(* the window start alone, raises the count by one, and is accepted if and  *)
(* only if it is among the first RATE_LIMIT_MAX of the window.              *)
C1_FixedWindow ==
  Counted =>
    IF (IF req.ip \notin DOMAIN pre.rate THEN TRUE
        ELSE ReqNow - pre.rate[req.ip].ts > RATE_LIMIT_WINDOW)
    THEN /\ resp.status = 200
         /\ rate[req.ip] = [ts |-> ReqNow, count |-> 1]
    ELSE /\ rate[req.ip] = [ts |-> pre.rate[req.ip].ts,
                            count |-> pre.rate[req.ip].count + 1]
         /\ resp.status = 200 <=> pre.rate[req.ip].count + 1 <= RATE_LIMIT_MAX

(* C1 as stated: as above, with the window over as soon as more than        *)
(* RATE_LIMIT_WINDOW of time has passed since the stored window start.      *)
C1_ResetOnceWindowElapsed ==
  Counted =>
    IF (IF req.ip \notin DOMAIN pre.rate THEN TRUE
        ELSE req.at - Seconds(pre.rate[req.ip].ts) > Seconds(RATE_LIMIT_WINDOW))
    THEN /\ resp.status = 200
         /\ rate[req.ip].count = 1
    ELSE /\ rate[req.ip].count = pre.rate[req.ip].count + 1
         /\ resp.status = 200 <=> pre.rate[req.ip].count + 1 <= RATE_LIMIT_MAX

\* a request is accepted and restarts the count after a window in which
\* requests were rejected
C1_Witness ==
  /\ resp.status = 200
  /\ req.ip \in DOMAIN pre.rate
  /\ pre.rate[req.ip].count > RATE_LIMIT_MAX
  /\ rate[req.ip].count = 1

(* C2: session expiry by inactivity.  An accepted request that finds its    *)
(* session last accessed more than MEMORY_TTL ago leaves it with the new    *)
(* message as its whole history, reports turn count 1 and reports only what *)
(* the new message holds; one that finds it last accessed within MEMORY_TTL *)
(* appends to the history it found and sets the last-active time to now.    *)
C2_SessionExpiry ==
  resp.status = 200 =>
    /\ FoundStale =>
          /\ memory[ReqCid].history = <<req.message>>
          /\ resp.conversation_turns = 1
          /\ ToSet(resp.upi_ids) = ToSet(re_findall(UPI_REGEX, req.message))
          /\ ToSet(resp.bank_accounts) = ToSet(re_findall(BANK_REGEX, req.message))
          /\ ToSet(resp.phishing_urls) = ToSet(re_findall(URL_REGEX, req.message))
    /\ FoundLive =>
          /\ memory[ReqCid].history =
                Append(pre.memory[ReqCid].history, req.message)
          /\ memory[ReqCid].ts = req.at_history

\* a session that held a payment identifier is found stale by a request
\* with no artifact, which is answered with empty intelligence
C2_Witness ==
  /\ resp.status = 200
  /\ FoundStale
  /\ re_findall(UPI_REGEX, Join(pre.memory[ReqCid].history)) # <<>>
  /\ resp.upi_ids = <<>>
  /\ resp.conversation_turns = 1

\* the outbound reports about a session
ReportsFor(cid) == {i \in DOMAIN outbox : outbox[i].sessionId = cid}
\* the verdict the handler returned for a stored message
ScamVerdict(message) == predict(message, ML_MODEL, DATASET).scam

(* C3: escalation is one-shot.  A session whose last two requests both got  *)
(* the scam verdict has exactly one outbound report.                        *)
C3_EscalatesOnce ==
  \A cid \in DOMAIN memory :
     LET h == memory[cid].history
     IN  (IF Len(h) < 2 THEN FALSE
          ELSE ScamVerdict(h[Len(h)]) /\ ScamVerdict(h[Len(h) - 1]))
         => Cardinality(ReportsFor(cid)) = 1

\* every worker has answered its requests
AllIdle == \A w \in Workers : frame[w].pc = "idle"
\* the answered requests, as (worker, index) pairs
Answered == {p \in Workers \X (1..MaxPerWorker) : p[2] <= Len(frame[p[1]].done)}
AcceptedFor(cid) ==
  Cardinality({p \in Answered : /\ frame[p[1]].done[p[2]].cid = cid
                                /\ frame[p[1]].done[p[2]].status = 200})
CountedFor(ip) ==
  Cardinality({p \in Answered : /\ frame[p[1]].done[p[2]].ip = ip
                                /\ frame[p[1]].done[p[2]].status # 401})

(* C4: per-session mutation is serialized.  Once every worker has answered, *)
(* each session's stored history holds one message per accepted request     *)
(* for its id.                                                              *)
C4_NoLostMessage ==
  AllIdle =>
    \A cid \in DOMAIN memoryRef :
       Len(sessions[memoryRef[cid]].history) = AcceptedFor(cid)

(* C5: the rate-limit count under concurrency.  Once every worker has       *)
(* answered, each client's bucket counts every request of the client since  *)
(* the window start.                                                        *)
C5_NoLostCount ==
  AllIdle =>
    \A ip \in DOMAIN rateRef :
       buckets[rateRef[ip]].count = CountedFor(ip)

(* C6: accumulated intelligence is monotone.  An accepted request that      *)
(* finds its session within its TTL reports every payment identifier, bank  *)
(* account and URL that the session's history held before the request.      *)
C6_IntelligenceMonotone ==
  (resp.status = 200 /\ FoundLive) =>
    LET before == Join(pre.memory[ReqCid].history)
    IN  /\ ToSet(re_findall(UPI_REGEX, before)) \subseteq ToSet(resp.upi_ids)
        /\ ToSet(re_findall(BANK_REGEX, before)) \subseteq ToSet(resp.bank_accounts)
        /\ ToSet(re_findall(URL_REGEX, before)) \subseteq ToSet(resp.phishing_urls)

\* a request with no artifact of its own is answered with the identifier,
\* account and URL of an earlier message
C6_Witness ==
  /\ resp.status = 200
  /\ FoundLive
  /\ req.message = MsgHi
  /\ resp.upi_ids # <<>>
  /\ resp.bank_accounts # <<>>
  /\ resp.phishing_urls # <<>>

(* C7: a rate-limited request changes nothing but its bucket's count.  When *)
(* the last request was answered 429, every session and every graph counter *)
(* is as the request found it, and so is every bucket except that the       *)
(* client's count is one higher.                                            *)
C7_LimitedFrame ==
  resp.status = 429 =>
    /\ memory = pre.memory
    /\ graph = pre.graph
    /\ rate = [pre.rate EXCEPT ![req.ip].count = @ + 1]

\* a request is answered 429 while a session and a graph counter exist
C7_Witness ==
  /\ resp.status = 429
  /\ "s1" \in DOMAIN memory
  /\ req.conversation_id = "s1"
  /\ graph # <<>>

\* the text as the classifier looks at it
Normalized == str_strip(str_lower(text))

(* C8: hard triggers are unconditional.  A text with a payment identifier,  *)
(* "otp", or "send" with "money" or "amount" is classified scam with        *)
(* confidence at least 0.85.                                                *)
C8_HardTriggerVerdict ==
  (Len(verdict) = 1 /\ HardTrigger(Normalized)) =>
    /\ verdict[1].scam
    /\ RatLeq(Rat(85, 100), verdict[1].confidence)

(* C9: the short-message bypass spares financial triggers.  A text of at    *)
(* most two words that holds a hard trigger is not answered not-scam by the *)
(* bypass: it gets the hard-trigger verdict.                                *)
C9_BypassSparesTriggers ==
  (Len(verdict) = 1 /\ WordCount(Normalized) <= 2 /\ HardTrigger(Normalized))
    => verdict[1].scam

\* conversational fillers
GreetingWhitelist == {MsgHi, MsgOk, MsgThanks, MsgYes, MsgHelloBro, MsgPadded}

(* C10: greetings are safe.  A text that is a conversational filler is      *)
(* classified not-scam with confidence at most 0.10, whatever corpus and    *)
(* model are loaded.                                                        *)
C10_GreetingSafe ==
  (Len(verdict) = 1 /\ text \in GreetingWhitelist) =>
    /\ ~verdict[1].scam
    /\ RatLeq(verdict[1].confidence, Rat(1, 10))

\* a greeting is classified with a model that gives probability 1 and a
\* corpus that holds the greeting
C10_Witness ==
  /\ Len(verdict) = 1
  /\ text = MsgThanks
  /\ ML_MODEL = Model(1, 1)
  /\ DATASET = <<MsgThanks, MsgHi>>

(* C11: the confidence is a probability.  Whatever the text, the corpus and *)
(* the model, the confidence predict returns is at least 0 and at most 1.   *)
C11_ConfidenceInUnitInterval ==
  Len(verdict) = 1 =>
    /\ RatLeq(Rat(0, 1), verdict[1].confidence)
    /\ RatLeq(verdict[1].confidence, Rat(1, 1))

\* every hard trigger and the model's probability 1 bring the score to more
\* than 12, and the confidence returned is 1
C11_Witness ==
  /\ Len(verdict) = 1
  /\ text = MsgAllTriggers
  /\ ML_MODEL = Model(1, 1)
  /\ HardScore(Normalized) + MlScore(ML_MODEL) > 12
  /\ verdict[1].confidence = Rat(1, 1)

\* the text passes the bypass and fires no hard trigger
Scored == ~ShortMessage(Normalized) /\ ~HardTrigger(Normalized)
\* the keywords and corpus templates matched, as points
TextScore == KeywordScore(Normalized) + DatasetScore(Normalized, DATASET)
\* an external probability is there
HasProbability == ML_MODEL.loaded /\ ~ML_MODEL.raises
\* the points of the external probability p: 4 * p, rounded down
ProbabilityPoints ==
  IF HasProbability THEN (4 * ML_MODEL.num) \div ML_MODEL.den ELSE 0

(* C12 as amended: for a text that passes the bypass and fires no hard      *)
(* trigger, the verdict is scam if and only if the points of the text plus  *)
(* the at most 4 points of the external probability reach 8; the            *)
(* probability alone never gives scam, and with no probability the verdict  *)
(* is exactly text score >= 8.                                              *)
C12_ThresholdDecision ==
  (Len(verdict) = 1 /\ Scored) =>
    /\ verdict[1].scam <=> TextScore + ProbabilityPoints >= 8
    /\ ~HasProbability => (verdict[1].scam <=> TextScore >= 8)
    /\ TextScore < 4 => ~verdict[1].scam

(* C12 as stated: for such a text the verdict is scam if and only if the    *)
(* score reaches 8 or the external probability exceeds the cutover, here    *)
(* read at probability 1, which exceeds every cutover below 1.              *)
C12_CutoverDecides ==
  (Len(verdict) = 1 /\ Scored) =>
    (verdict[1].scam <=>
       \/ TextScore + ProbabilityPoints >= 8
       \/ HasProbability /\ ML_MODEL.num = ML_MODEL.den)

\* a text with fewer than 4 points is classified with probability 1, and
\* the verdict is not scam
C12_Witness ==
  /\ Len(verdict) = 1
  /\ Scored
  /\ ML_MODEL = Model(1, 1)
  /\ TextScore < 4
  /\ ~verdict[1].scam

(* C13: a URL with a verification keyword is a scam.  A text that holds an  *)
(* http(s) URL and the word "verify", such as turn 2 of the end-to-end      *)
(* scenario, is classified scam with confidence at least 0.7, and the URL   *)
(* is extracted from it.                                                    *)
C13_UrlWithKeywordIsScam ==
  (/\ Len(verdict) = 1
   /\ re_search(URL_REGEX, Normalized)
   /\ Contains(<<118, 101, 114, 105, 102, 121>>, Normalized)) =>   \* "verify"
    /\ verdict[1].scam
    /\ RatLeq(Rat(7, 10), verdict[1].confidence)
    /\ \A intel \in extract(text) : intel.url # <<>>

\* the identifiers, accounts and URLs of a text, as sets
Found(t) ==
  [upi  |-> ToSet(re_findall(UPI_REGEX, t)),
   bank |-> ToSet(re_findall(BANK_REGEX, t)),
   url  |-> ToSet(re_findall(URL_REGEX, t))]
\* what the session's history held before the last request
Before == Found(Join(pre.memory[ReqCid].history))
\* what the last request's message holds
Fresh == Found(req.message)
\* the list holds no value twice
NoDuplicate(xs) == Cardinality(ToSet(xs)) = Len(xs)

(* C14: merging is idempotent and deduplicated.  An accepted request to a   *)
(* live session whose message holds only identifiers, accounts and URLs     *)
(* that the history already held is answered with the same three sets as    *)
(* the history gave before it, and no list of an accepted request's         *)
(* response holds a value twice.                                            *)
C14_MergeIdempotent ==
  resp.status = 200 =>
    /\ NoDuplicate(resp.upi_ids)
    /\ NoDuplicate(resp.bank_accounts)
    /\ NoDuplicate(resp.phishing_urls)
    /\ (/\ FoundLive
        /\ Fresh.upi \subseteq Before.upi
        /\ Fresh.bank \subseteq Before.bank
        /\ Fresh.url \subseteq Before.url) =>
          /\ ToSet(resp.upi_ids) = Before.upi
          /\ ToSet(resp.bank_accounts) = Before.bank
          /\ ToSet(resp.phishing_urls) = Before.url

\* the message with an identifier, an account and a URL is sent a second
\* time to its session
C14_Witness ==
  /\ resp.status = 200
  /\ FoundLive
  /\ req.message = MsgMixed
  /\ pre.memory[ReqCid].history = <<MsgMixed>>
  /\ Len(resp.upi_ids) = 1
  /\ Len(resp.bank_accounts) = 1
  /\ Len(resp.phishing_urls) = 1

(* C15: the graph counts observations.  An accepted request raises by one   *)
(* the counter of each payment identifier its new message holds and leaves  *)
(* every other counter as it was; a message with no identifier leaves the   *)
(* graph unchanged.                                                         *)
C15_GraphCountsObservations ==
  resp.status = 200 =>
    /\ DOMAIN graph = DOMAIN pre.graph \cup Fresh.upi
    /\ \A u \in DOMAIN graph :
          graph[u] = (IF u \in DOMAIN pre.graph THEN pre.graph[u] ELSE 0)
                       + (IF u \in Fresh.upi THEN 1 ELSE 0)

\* the history of the last request's session, the new message included
After == memory[ReqCid].history
\* the last three messages of h have the same number of words
LastThreeAlike(h) ==
  IF Len(h) < 3 THEN FALSE
  ELSE /\ WordCount(h[Len(h)]) = WordCount(h[Len(h) - 1])
       /\ WordCount(h[Len(h) - 1]) = WordCount(h[Len(h) - 2])

(* C16: the bot-pattern flag.  An accepted request is answered with         *)
(* ai_suspected true if and only if its session's history, the new message  *)
(* included, has at least three messages and the last three have the same   *)
(* number of words; the verdict and the confidence are those of the new     *)
(* message alone, whatever the history and the flag.                        *)
C16_AiSuspected ==
  resp.status = 200 =>
    /\ resp.ai_suspected <=> LastThreeAlike(After)
    /\ resp.scam_detected = predict(req.message, ML_MODEL, DATASET).scam
    /\ resp.confidence = predict(req.message, ML_MODEL, DATASET).confidence

\* three messages of one word each, not all the same text, raise the flag
\* of a request that is not a scam
C16_Witness ==
  /\ resp.status = 200
  /\ Len(After) = 3
  /\ After[1] # After[3]
  /\ resp.ai_suspected
  /\ ~resp.scam_detected

\* the session id the last request asked for: its conversation id, or the
\* client's address when it gave none
AskedId == IF req.conversation_id = "" THEN req.ip ELSE req.conversation_id

(* C17: sessions are isolated by id.  An accepted request is stored under   *)
(* its conversation id, or under the client's address when it gives none:   *)
(* that session ends with the new message and is last active now, every     *)
(* other session has the history and the last-active time it had, no other  *)
(* session appears, and an id-less request that finds the client's session  *)
(* live is its next turn.                                                   *)
C17_SessionsIsolated ==
  resp.status = 200 =>
    /\ DOMAIN memory = DOMAIN pre.memory \cup {AskedId}
    /\ memory[AskedId].ts = req.at_history
    /\ memory[AskedId].history[Len(memory[AskedId].history)] = req.message
    /\ \A B \in DOMAIN pre.memory \ {AskedId} : memory[B] = pre.memory[B]
    /\ (req.conversation_id = "" /\ FoundLive) =>
          resp.conversation_turns = Len(pre.memory[req.ip].history) + 1

\* an id-less request is the client's second turn or later, while the
\* session "s1" keeps the earlier time it was last active at
C17_Witness ==
  /\ resp.status = 200
  /\ req.conversation_id = ""
  /\ resp.conversation_turns >= 2
  /\ "s1" \in DOMAIN pre.memory
  /\ memory["s1"].ts < req.at_history
  /\ memory["s1"].history = <<MsgPayUpi>>

(* C18: a request with a wrong key touches nothing.  When the last request  *)
(* was answered 401, the rate-limit buckets, the sessions and the graph     *)
(* counters are all as the request found them.                              *)
C18_UnauthorizedFrame ==
  resp.status = 401 =>
    /\ rate = pre.rate
    /\ memory = pre.memory
    /\ graph = pre.graph

\* a request with a wrong key is answered 401 when its client has a bucket,
\* a session and a graph counter
C18_Witness ==
  /\ resp.status = 401
  /\ req.x_api_key # API_KEY
  /\ req.ip \in DOMAIN rate
  /\ req.ip \in DOMAIN memory
  /\ DOMAIN graph # {}

=============================================================================
